---------------------------- MODULE Spec2Model ----------------------------
(***************************************************************************)
(* A model of the retrieval engine of backend/app/services/rag.py          *)
(* (RagService.answer_question, its streaming twin and their helpers) and  *)
(* of backend/app/repositories/patient_chunks.py (the chunk store).        *)
(*                                                                         *)
(* Text is modelled at character level: a Python str is a sequence of      *)
(* one-character strings, an Optional value is the empty set (None) or a   *)
(* singleton set.                                                          *)
(***************************************************************************)
EXTENDS Integers, Sequences, FiniteSets, TLC

VARIABLES
    store,      \* rows of the patient_chunks table of the patient, most recently ingested first
    settings,   \* the Settings object and whether a log repository was given to RagService
    call,       \* the locals of the one answer_question / answer_question_stream call in progress
    auditlog,   \* the records written by RagLogRepository.log_rag_query
    probe       \* input and output of a single repository / helper function applied on its own

vars == <<store, settings, call, auditlog, probe>>

-----------------------------------------------------------------------------
(* Optional values *)

None == {}

Some(v) == {v}

IsNone(o) == o = {}

Get(o) == CHOOSE v \in o : TRUE

-----------------------------------------------------------------------------
(* Sequences *)

Range(s) == {s[i] : i \in 1..Len(s)}

Min2(a, b) == IF a <= b THEN a ELSE b

Max2(a, b) == IF a >= b THEN a ELSE b

\* Python s[:n] for n >= 0
Take(s, n) == SubSeq(s, 1, Min2(n, Len(s)))

\* Python s[n:] for n >= 0
Drop(s, n) == SubSeq(s, n + 1, Len(s))

RECURSIVE SelectIdx(_, _, _)
\* the indices i >= from of s, ascending, for which keep[i] holds
SelectIdx(keep, from, n) ==
    IF from > n THEN <<>>
    ELSE (IF keep[from] THEN <<from>> ELSE <<>>) \o SelectIdx(keep, from + 1, n)

RECURSIVE Concat(_)
Concat(ss) == IF ss = <<>> THEN <<>> ELSE Head(ss) \o Concat(Tail(ss))

-----------------------------------------------------------------------------
(* Characters, as Python's str and re classify them *)

Digits == <<"0", "1", "2", "3", "4", "5", "6", "7", "8", "9">>

IsDigit(c) == c \in Range(Digits)

DigitVal(c) == (CHOOSE i \in 1..10 : Digits[i] = c) - 1

\* str.isspace / re \s
IsSpace(c) == c \in {" ", "\t", "\n"}

\* the bullet glyph U+2022, one character
BulletGlyph == "(U+2022)"

Punctuation == {".", ",", "-", ":", "?", "*", "+", "/", "%", ";", BulletGlyph}

\* re \w: letters, digits and underscore
IsWordChar(c) == ~IsSpace(c) /\ c \notin Punctuation

UpperCase ==
    <<"A", "B", "C", "D", "E", "F", "G", "H", "I", "J", "K", "L", "M",
      "N", "O", "P", "Q", "R", "S", "T", "U", "V", "W", "X", "Y", "Z">>

LowerCase ==
    <<"a", "b", "c", "d", "e", "f", "g", "h", "i", "j", "k", "l", "m",
      "n", "o", "p", "q", "r", "s", "t", "u", "v", "w", "x", "y", "z">>

\* str.lower of one character
LowerChar(c) ==
    IF c \in Range(UpperCase) THEN LowerCase[CHOOSE i \in 1..26 : UpperCase[i] = c] ELSE c

\* str.lower
Lower(s) == [i \in 1..Len(s) |-> LowerChar(s[i])]

\* str.upper
Upper(s) ==
    [i \in 1..Len(s) |->
        IF s[i] \in Range(LowerCase) THEN UpperCase[CHOOSE k \in 1..26 : LowerCase[k] = s[i]]
        ELSE s[i]]

\* the literal lit occurs in s at index i
MatchAt(s, i, lit) ==
    /\ i >= 1
    /\ i + Len(lit) - 1 <= Len(s)
    /\ SubSeq(s, i, i + Len(lit) - 1) = lit

\* Python `lit in s`
Contains(s, lit) == \E i \in 1..(Len(s) + 1) : MatchAt(s, i, lit)

\* str.startswith
StartsWith(s, lit) == MatchAt(s, 1, lit)

\* re \b between index i - 1 and index i of s
WordBoundary(s, i) ==
    LET before == i - 1 >= 1 /\ i - 1 <= Len(s) /\ IsWordChar(s[i - 1])
        after  == i >= 1 /\ i <= Len(s) /\ IsWordChar(s[i])
    IN  before # after

RECURSIVE LStripIdx(_, _, _)
\* the first index >= i of s whose character is not in the set chars
LStripIdx(s, i, chars) ==
    IF i <= Len(s) /\ s[i] \in chars THEN LStripIdx(s, i + 1, chars) ELSE i

RECURSIVE RStripIdx(_, _)
\* the last index <= i of s whose character is not whitespace
RStripIdx(s, i) ==
    IF i >= 1 /\ IsSpace(s[i]) THEN RStripIdx(s, i - 1) ELSE i

\* str.strip()
Strip(s) == SubSeq(s, LStripIdx(s, 1, {" ", "\t", "\n"}), RStripIdx(s, Len(s)))

RECURSIVE ParseInt(_)
\* int() of a run of decimal digits
ParseInt(ds) ==
    IF ds = <<>> THEN 0
    ELSE 10 * ParseInt(SubSeq(ds, 1, Len(ds) - 1)) + DigitVal(ds[Len(ds)])

SpaceChars == {" ", "\t", "\n"}

DigitChars == Range(Digits)

-----------------------------------------------------------------------------
(* Query intent: rag.py, answer_question lines 413-421 and the helpers     *)
(* _needs_hybrid_search and _extract_lab_keywords                          *)

W_last == <<"l", "a", "s", "t">>
W_all == <<"a", "l", "l">>
W_every == <<"e", "v", "e", "r", "y">>
W_each == <<"e", "a", "c", "h">>
W_complete == <<"c", "o", "m", "p", "l", "e", "t", "e">>
W_full == <<"f", "u", "l", "l">>
W_how_many == <<"h", "o", "w", " ", "m", "a", "n", "y">>
W_list == <<"l", "i", "s", "t">>

\* a match of the literal lit at index i of s followed by \s+ ; the index after the whitespace, or 0
AfterLitSpaces(s, i, lit) ==
    IF ~MatchAt(s, i, lit) THEN 0
    ELSE LET j == LStripIdx(s, i + Len(lit), SpaceChars)
         IN  IF j > i + Len(lit) THEN j ELSE 0

\* re.search(r'last\s+(\d+)', question_lower): the start indices of all matches
LastNMatches(q) ==
    {i \in 1..Len(q) :
        LET j == AfterLitSpaces(q, i, W_last)
        IN  j # 0 /\ j <= Len(q) /\ IsDigit(q[j])}

\* int(last_n_match.group(1)) if last_n_match else None, for the leftmost match
last_n_count(q) ==
    LET ms == LastNMatches(q)
    IN  IF ms = {} THEN None
        ELSE LET i == CHOOSE m \in ms : \A n \in ms : m <= n
                 j == AfterLitSpaces(q, i, W_last)
             IN  Some(ParseInt(SubSeq(q, j, LStripIdx(q, j, DigitChars) - 1)))

\* any(term in question_lower for term in ['all', 'every', 'complete', 'full'])
asks_for_all(q) ==
    \E term \in {W_all, W_every, W_complete, W_full} : Contains(q, term)

\* r'\blast\s+\d+'
HybridPatternLastN(q) ==
    \E i \in LastNMatches(q) : WordBoundary(q, i)

\* r'\b(all|every|each)\s+'
HybridPatternAll(q) ==
    \E i \in 1..Len(q) : \E w \in {W_all, W_every, W_each} :
        WordBoundary(q, i) /\ AfterLitSpaces(q, i, w) # 0

\* r'\bhow many'
HybridPatternHowMany(q) ==
    \E i \in 1..Len(q) : WordBoundary(q, i) /\ MatchAt(q, i, W_how_many)

\* r'\blist\s+'
HybridPatternList(q) ==
    \E i \in 1..Len(q) : WordBoundary(q, i) /\ AfterLitSpaces(q, i, W_list) # 0

\* RagService._needs_hybrid_search
needs_hybrid_search(question) ==
    LET q == Lower(question)
    IN  \/ HybridPatternLastN(q)
        \/ HybridPatternAll(q)
        \/ HybridPatternHowMany(q)
        \/ HybridPatternList(q)

\* lab_patterns of _extract_lab_keywords: r'\bword\b', or r'\bword[s]?\b' when plural
lab_patterns == <<
    [word |-> <<"t", "r", "i", "g", "l", "y", "c", "e", "r", "i", "d", "e">>, plural |-> TRUE],
    [word |-> <<"c", "h", "o", "l", "e", "s", "t", "e", "r", "o", "l">>, plural |-> FALSE],
    [word |-> <<"g", "l", "u", "c", "o", "s", "e">>, plural |-> FALSE],
    [word |-> <<"h", "b", "a", "1", "c">>, plural |-> FALSE],
    [word |-> <<"h", "p", "a", "1", "c">>, plural |-> FALSE],
    [word |-> <<"a", "1", "c">>, plural |-> FALSE],
    [word |-> <<"h", "e", "m", "o", "g", "l", "o", "b", "i", "n", " ", "a", "1", "c">>, plural |-> FALSE],
    [word |-> <<"c", "r", "e", "a", "t", "i", "n", "i", "n", "e">>, plural |-> FALSE],
    [word |-> <<"h", "e", "m", "o", "g", "l", "o", "b", "i", "n">>, plural |-> FALSE],
    [word |-> <<"p", "l", "a", "t", "e", "l", "e", "t">>, plural |-> TRUE],
    [word |-> <<"w", "b", "c">>, plural |-> FALSE],
    [word |-> <<"r", "b", "c">>, plural |-> FALSE],
    [word |-> <<"l", "i", "p", "i", "d">>, plural |-> TRUE],
    [word |-> <<"l", "d", "l">>, plural |-> FALSE],
    [word |-> <<"h", "d", "l">>, plural |-> FALSE],
    [word |-> <<"b", "p">>, plural |-> FALSE],
    [word |-> <<"b", "l", "o", "o", "d", " ", "p", "r", "e", "s", "s", "u", "r", "e">>, plural |-> FALSE],
    [word |-> <<"b", "m", "i">>, plural |-> FALSE],
    [word |-> <<"w", "e", "i", "g", "h", "t">>, plural |-> FALSE],
    [word |-> <<"h", "e", "i", "g", "h", "t">>, plural |-> FALSE],
    [word |-> <<"b", "u", "n">>, plural |-> FALSE],
    [word |-> <<"e", "g", "f", "r">>, plural |-> FALSE],
    [word |-> <<"p", "o", "t", "a", "s", "s", "i", "u", "m">>, plural |-> FALSE],
    [word |-> <<"s", "o", "d", "i", "u", "m">>, plural |-> FALSE],
    [word |-> <<"c", "a", "l", "c", "i", "u", "m">>, plural |-> FALSE]
>>

\* the end index of a match of pattern p starting at index i of q, or 0: \b word [s]? \b,
\* the optional s taken when the match can then still end at a word boundary
LabMatchEnd(q, i, p) ==
    LET e == i + Len(p.word) - 1
    IN  IF ~(WordBoundary(q, i) /\ MatchAt(q, i, p.word)) THEN 0
        ELSE IF p.plural /\ e + 1 <= Len(q) /\ q[e + 1] = "s" /\ WordBoundary(q, e + 2) THEN e + 1
        ELSE IF WordBoundary(q, e + 1) THEN e
        ELSE 0

\* the keywords one pattern contributes: match.group(0).strip() of the leftmost match, and its
\* singular form when it ends in s and is longer than 3
LabKeywordsOf(q, p) ==
    LET starts == {i \in 1..Len(q) : LabMatchEnd(q, i, p) # 0}
    IN  IF starts = {} THEN {}
        ELSE LET i == CHOOSE m \in starts : \A n \in starts : m <= n
                 keyword == Strip(SubSeq(q, i, LabMatchEnd(q, i, p)))
             IN  {keyword} \cup
                 (IF keyword[Len(keyword)] = "s" /\ Len(keyword) > 3
                  THEN {SubSeq(keyword, 1, Len(keyword) - 1)} ELSE {})

\* RagService._extract_lab_keywords: list(set(keywords)), as a set
extract_lab_keywords(question) ==
    LET q == Lower(question)
    IN  UNION {LabKeywordsOf(q, lab_patterns[k]) : k \in 1..Len(lab_patterns)}

\* a variant that takes the first keyword of the list, whatever its length
PrimaryKeywordsOfAnyLength(lab_keywords) == lab_keywords

\* max(lab_keywords, key=len): the first keyword of maximal length in the order of
\* list(set(keywords)), which is the order of a hash set: any keyword of maximal length
PrimaryKeywords(lab_keywords) ==
    {k \in lab_keywords : \A o \in lab_keywords : Len(o) <= Len(k)}

-----------------------------------------------------------------------------
(* The chunk store: patient_chunks.py                                      *)
(*                                                                         *)
(* A row of patient_chunks is                                              *)
(*   [chunk_id, document_id, file_name, page_number, chunk_index, text,    *)
(*    sim]                                                                 *)
(* where sim is None when the row's embedding IS NULL and otherwise the    *)
(* value of 1 - (embedding <-> query embedding) in hundredths.  A          *)
(* PatientChunk is the same record with the field similarity for sim.      *)

\* PatientChunk(**row) of a row selected without a similarity column (similarity defaults to None)
ChunkOfRow(r) ==
    [chunk_id |-> r.chunk_id, document_id |-> r.document_id, file_name |-> r.file_name,
     page_number |-> r.page_number, chunk_index |-> r.chunk_index, text |-> r.text,
     similarity |-> None]

\* PatientChunk(...) of a row of a similarity query, lines 179-188
ChunkOfSimilarityRow(r) ==
    [chunk_id |-> r.chunk_id, document_id |-> r.document_id, file_name |-> r.file_name,
     page_number |-> r.page_number, chunk_index |-> r.chunk_index, text |-> r.text,
     similarity |-> r.sim]

\* `text and text.strip()`: the text is present and not only whitespace
HasText(text) == ~IsNone(text) /\ Get(text) # <<>> /\ Strip(Get(text)) # <<>>

RECURSIVE Filter(_, _)
\* the subsequence of s of the elements x with keep[x] (keep a function on the elements of s)
Filter(s, keep) ==
    IF s = <<>> THEN <<>>
    ELSE (IF keep[Head(s)] THEN <<Head(s)>> ELSE <<>>) \o Filter(Tail(s), keep)

RECURSIVE OrderBySimilarity(_)
\* ORDER BY embedding <-> $2::vector : the rows with an embedding, most similar first
OrderBySimilarity(rows) ==
    IF rows = {} THEN <<>>
    ELSE LET top == CHOOSE r \in rows : \A o \in rows : Get(o.sim) <= Get(r.sim)
         IN  <<top>> \o OrderBySimilarity(rows \ {top})

\* the direct query of lines 135-150 and 155-170, followed by the manual similarity filter of
\* lines 152 and 172 (a similarity of 0 is falsy and dropped with the ones under the threshold)
FallbackQuery(rows, limit, min_similarity) ==
    LET fetched == Take(OrderBySimilarity({r \in Range(rows) : ~IsNone(r.sim)}), limit)
    IN  Filter(fetched, [r \in Range(fetched) |-> Get(r.sim) # 0 /\ Get(r.sim) >= min_similarity])

\* the stored function match_patient_chunks(embedding, patient, match_count, threshold): the
\* match_count most similar rows of the patient among those at or above the threshold
match_patient_chunks(rows, match_count, threshold) ==
    Take(OrderBySimilarity({r \in Range(rows) : ~IsNone(r.sim) /\ Get(r.sim) >= threshold}),
         match_count)

\* the cap of line 125: min(limit, 10)
StoredFunctionCap == 10

\* the limit search_similar_chunks hands to the stored function, line 125
StoredFunctionLimit(limit) == Min2(limit, StoredFunctionCap)

\* what the database answers to each statement search_similar_chunks sends: to SET LOCAL, to the
\* stored function (undefined: UndefinedFunctionError or UndefinedTableError), to the direct
\* query of the inner except clause and to the one of the outer except clause; an answer to a
\* statement that is not sent is written "ok"
DbOutcomes ==
    {db \in [set_local : {"ok", "error"}, fn : {"ok", "undefined", "error"},
             fallback : {"ok", "error"}, retry : {"ok", "error"}] :
        /\ db.set_local = "error" => db.fn = "ok"
        /\ db.fn # "undefined" => db.fallback = "ok"
        /\ (db.set_local = "ok" /\ (db.fn = "ok" \/ (db.fn = "undefined" /\ db.fallback = "ok")))
             => db.retry = "ok"}

\* the statements search_similar_chunks sends, in order, lines 112-172
SearchQueries(db) ==
    IF db.set_local = "error" THEN <<"set_local", "direct_query">>
    ELSE IF db.fn = "ok" THEN <<"set_local", "match_patient_chunks">>
    ELSE IF db.fn = "error" THEN <<"set_local", "match_patient_chunks", "direct_query">>
    ELSE IF db.fallback = "ok" THEN <<"set_local", "match_patient_chunks", "direct_query">>
    ELSE <<"set_local", "match_patient_chunks", "direct_query", "direct_query">>

\* whether the rows come from the stored function (else from a direct query)
SearchUsesStoredFunction(db) == db.set_local = "ok" /\ db.fn = "ok"

\* whether search_similar_chunks raises: only the query of the outer except clause, line 170,
\* is not guarded
SearchRaises(db) ==
    /\ ~SearchUsesStoredFunction(db)
    /\ ~(db.set_local = "ok" /\ db.fn = "undefined" /\ db.fallback = "ok")
    /\ db.retry = "error"

\* lines 176-191: rows with non-empty text become chunks, stopping at limit chunks
RowsToChunks(rows, limit) ==
    LET kept == Filter(rows, [r \in Range(rows) |-> HasText(r.text)])
    IN  Take([i \in 1..Len(kept) |-> ChunkOfSimilarityRow(kept[i])], limit)

\* PatientChunkRepository.search_similar_chunks
search_similar_chunks(rows, limit, min_similarity, db) ==
    IF SearchRaises(db)
    THEN [raised |-> TRUE, chunks |-> <<>>, queries |-> SearchQueries(db)]
    ELSE [raised |-> FALSE,
          chunks |-> RowsToChunks(
                        IF SearchUsesStoredFunction(db)
                        THEN match_patient_chunks(rows, StoredFunctionLimit(limit), min_similarity)
                        ELSE FallbackQuery(rows, limit, min_similarity),
                        limit),
          queries |-> SearchQueries(db)]

\* PatientChunkRepository.fetch_recent_chunks: ORDER BY ingested_at DESC ... LIMIT $2
fetch_recent_chunks(rows, limit) ==
    LET fetched == Take(rows, limit)
    IN  [i \in 1..Len(fetched) |-> ChunkOfRow(fetched[i])]

\* PatientChunkRepository.search_chunks_by_keyword(patient_id, term, limit): the rows whose
\* text contains the term, at most limit of them
search_chunks_by_keyword(rows, term, limit) ==
    LET hits == Filter(rows, [r \in Range(rows) |->
                    ~IsNone(r.text) /\ Contains(Lower(Get(r.text)), Lower(term))])
        fetched == Take(hits, limit)
    IN  [i \in 1..Len(fetched) |-> ChunkOfRow(fetched[i])]

RECURSIVE PerDocument(_, _, _)
\* the rows of the given documents, at most limit_per_document of each document
PerDocument(rows, document_ids, limit_per_document) ==
    IF rows = <<>> THEN <<>>
    ELSE LET r == rows[Len(rows)]
             before == SubSeq(rows, 1, Len(rows) - 1)
             earlier == Cardinality({i \in 1..Len(before) : before[i].document_id = r.document_id})
         IN  PerDocument(before, document_ids, limit_per_document) \o
             (IF r.document_id \in document_ids /\ earlier < limit_per_document
              THEN <<r>> ELSE <<>>)

\* PatientChunkRepository.fetch_chunks_by_documents(patient_id, document_ids, limit_per_document)
fetch_chunks_by_documents(rows, document_ids, limit_per_document) ==
    LET fetched == PerDocument(rows, document_ids, limit_per_document)
    IN  [i \in 1..Len(fetched) |-> ChunkOfRow(fetched[i])]

-----------------------------------------------------------------------------
(* The composite reranker: rag.py lines 279-399.  Scores are exact         *)
(* fractions over a common denominator, except math.exp, which is tabled   *)
(* to six decimals.                                                        *)

stop_words == {
    <<"t", "h", "e">>, <<"a">>, <<"a", "n">>,
    <<"a", "n", "d">>, <<"o", "r">>, <<"b", "u", "t">>,
    <<"i", "n">>, <<"o", "n">>, <<"a", "t">>,
    <<"t", "o">>, <<"f", "o", "r">>, <<"o", "f">>,
    <<"w", "i", "t", "h">>, <<"b", "y">>, <<"w", "h", "a", "t">>,
    <<"w", "h", "e", "n">>, <<"w", "h", "e", "r", "e">>, <<"h", "o", "w">>,
    <<"i", "s">>, <<"a", "r", "e">>, <<"w", "a", "s">>,
    <<"w", "e", "r", "e">>, <<"b", "e">>, <<"b", "e", "e", "n">>,
    <<"h", "a", "v", "e">>, <<"h", "a", "s">>, <<"h", "a", "d">>,
    <<"d", "o">>, <<"d", "o", "e", "s">>, <<"d", "i", "d">>,
    <<"w", "i", "l", "l">>, <<"w", "o", "u", "l", "d">>, <<"c", "o", "u", "l", "d">>,
    <<"s", "h", "o", "u", "l", "d">>
}

RECURSIVE WordTokens(_, _)
\* re.findall(r'\b\w+\b', s) from index i on: the maximal runs of word characters
WordTokens(s, i) ==
    IF i > Len(s) THEN <<>>
    ELSE IF ~IsWordChar(s[i]) THEN WordTokens(s, i + 1)
    ELSE LET j == LStripIdx(s, i, {s[k] : k \in {n \in i..Len(s) : IsWordChar(s[n])}})
         IN  <<SubSeq(s, i, j - 1)>> \o WordTokens(s, j)

\* question_words of _calculate_keyword_score, line 294
question_words(question) ==
    LET tokens == WordTokens(Lower(question), 1)
    IN  Filter(tokens, [w \in Range(tokens) |-> w \notin stop_words /\ Len(w) > 2])

RECURSIVE CountFrom(_, _, _)
\* str.count: the number of non-overlapping occurrences of word in s from index i on
CountFrom(s, word, i) ==
    IF i + Len(word) - 1 > Len(s) THEN 0
    ELSE IF MatchAt(s, i, word) THEN 1 + CountFrom(s, word, i + Len(word))
    ELSE CountFrom(s, word, i + 1)

\* the resolution of the exponential table
ScoreScale == 1000000

\* _calculate_keyword_score times 10 * len(question_words); 0 when it returns 0.0 early
KeywordScoreTimes10N(chunk, question) ==
    LET words == question_words(question)
        n == Len(words)
    IN  IF IsNone(chunk.text) \/ Get(chunk.text) = <<>> \/ n = 0 THEN 0
        ELSE LET text == Lower(Get(chunk.text))
                 matches == Cardinality({i \in 1..n : Contains(text, words[i])})
                 RECURSIVE Total(_)
                 Total(i) == IF i = 0 THEN 0 ELSE CountFrom(text, words[i], 1) + Total(i - 1)
                 bonus == Min2(3, Total(n) - matches)
             IN  Min2(10 * n, 10 * matches + bonus * n)

\* math.exp(-index / max_index * 2) times ScoreScale, row max_index, column index + 1
ExpTable == <<
    <<1000000, 135335>>,
    <<1000000, 367879, 135335>>,
    <<1000000, 513417, 263597, 135335>>,
    <<1000000, 606531, 367879, 223130, 135335>>,
    <<1000000, 670320, 449329, 301194, 201897, 135335>>,
    <<1000000, 716531, 513417, 367879, 263597, 188876, 135335>>
>>

\* a variant whose decay ends on the floor: the last chunk of a list scores 0.1
calculate_recency_score_ending_on_floor(chunks, chunk) ==
    LET found == {i \in 1..Len(chunks) : chunks[i] = chunk}
    IN  IF found = {} THEN ScoreScale \div 2
        ELSE LET index == (CHOOSE i \in found : \A j \in found : i <= j) - 1
                 max_index == Len(chunks) - 1
             IN  IF max_index = 0 THEN ScoreScale
                 ELSE IF index = max_index THEN ScoreScale \div 10
                 ELSE Max2(ScoreScale \div 10, ExpTable[max_index][index + 1])

\* _calculate_recency_score times ScoreScale
calculate_recency_score(chunks, chunk) ==
    LET found == {i \in 1..Len(chunks) : chunks[i] = chunk}
    IN  IF found = {} THEN ScoreScale \div 2
        ELSE LET index == (CHOOSE i \in found : \A j \in found : i <= j) - 1
                 max_index == Len(chunks) - 1
             IN  IF max_index = 0 THEN ScoreScale
                 ELSE Max2(ScoreScale \div 10, ExpTable[max_index][index + 1])

\* the composite score of lines 358-384 times 10 * 10 * n * ScoreScale, n the number of
\* question words (1 when there is none), the weights in tenths
CompositeScore(chunks, chunk, question, s) ==
    LET n == Max2(1, Len(question_words(question)))
        kw == KeywordScoreTimes10N(chunk, question)
        rec == calculate_recency_score(chunks, chunk)
        sim == IF IsNone(chunk.similarity) THEN 0
               ELSE Max2(0, Min2(100, Get(chunk.similarity)))
        \* similarity term times 1000 * n: similarity_score, or keyword_score * 0.8
        simterm == IF IsNone(chunk.similarity) THEN 80 * kw ELSE 10 * n * sim
    IN  s.rerank_similarity_weight * simterm * (ScoreScale \div 100)
        + s.rerank_keyword_weight * kw * ScoreScale
        + s.rerank_recency_weight * rec * 10 * n

RECURSIVE SortDescendingLastFirst(_, _)
\* a variant that is not stable: of equal scores the later one comes first, as sorting
\* ascending and reversing the list would give
SortDescendingLastFirst(idx, score) ==
    IF idx = <<>> THEN <<>>
    ELSE LET best == CHOOSE i \in 1..Len(idx) :
                        /\ \A j \in 1..Len(idx) : score[idx[j]] <= score[idx[i]]
                        /\ \A j \in (i + 1)..Len(idx) : score[idx[j]] < score[idx[i]]
         IN  <<idx[best]>> \o
             SortDescendingLastFirst(SubSeq(idx, 1, best - 1)
                                     \o SubSeq(idx, best + 1, Len(idx)), score)

RECURSIVE SortDescending(_, _)
\* list.sort(key=score, reverse=True) of the indices idx: stable, equal scores keep their order
SortDescending(idx, score) ==
    IF idx = <<>> THEN <<>>
    ELSE LET best == CHOOSE i \in 1..Len(idx) :
                        /\ \A j \in 1..Len(idx) : score[idx[j]] <= score[idx[i]]
                        /\ \A j \in 1..(i - 1) : score[idx[j]] < score[idx[i]]
         IN  <<idx[best]>> \o
             SortDescending(SubSeq(idx, 1, best - 1) \o SubSeq(idx, best + 1, Len(idx)), score)

\* lines 355-387: the composite scores of scored_chunks, a list built once (the empty list
\* appended makes it a tuple rather than a function evaluated at each use)
scored_chunks(chunks, question, s) ==
    [i \in 1..Len(chunks) |-> CompositeScore(chunks, chunks[i], question, s)] \o <<>>

\* a variant without the early return of lines 351-352
rerank_chunks_always_scored(chunks, question, top_k, s) ==
    IF chunks = <<>> \/ ~s.rerank_enabled THEN Take(chunks, top_k)
    ELSE LET score == scored_chunks(chunks, question, s)
             order == SortDescending([i \in 1..Len(chunks) |-> i], score)
         IN  [k \in 1..Min2(top_k, Len(chunks)) |-> chunks[order[k]]]

\* RagService._rerank_chunks
rerank_chunks(chunks, question, top_k, s) ==
    IF chunks = <<>> \/ ~s.rerank_enabled THEN Take(chunks, top_k)
    ELSE IF Len(chunks) <= top_k THEN chunks
    ELSE LET score == scored_chunks(chunks, question, s)
             order == SortDescending([i \in 1..Len(chunks) |-> i], score)
         IN  [k \in 1..Min2(top_k, Len(chunks)) |-> chunks[order[k]]]

\* a variant that sorts the caller's list in place (chunks.sort) instead of scored_chunks
rerank_call_sorting_in_place(chunks, question, top_k, s) ==
    IF chunks = <<>> \/ ~s.rerank_enabled \/ Len(chunks) <= top_k
    THEN [returned |-> rerank_chunks(chunks, question, top_k, s), chunks |-> chunks]
    ELSE LET score == scored_chunks(chunks, question, s)
             order == SortDescending([i \in 1..Len(chunks) |-> i], score)
             sorted == [k \in 1..Len(chunks) |-> chunks[order[k]]]
         IN  [returned |-> Take(sorted, top_k), chunks |-> sorted]

\* one call of _rerank_chunks on a list object: what it returns and what the caller's list
\* holds afterwards.  Lines 348, 355 and 390 build new lists (a slice, scored_chunks, a
\* comprehension), line 352 returns the list itself, and nothing assigns into `chunks`
rerank_call(chunks, question, top_k, s) ==
    [returned |-> rerank_chunks(chunks, question, top_k, s), chunks |-> chunks]

-----------------------------------------------------------------------------
(* The context formatter: rag.py lines 1218-1273.  A formatted string is   *)
(* modelled by the list of its entries (the list handed to join), or by    *)
(* the sentinel returned when that list is empty.                          *)

NoContextSentinel == "No patient context available."

NoChunksSentinel == "No chunks retrieved"

Extensions == {<<".", "p", "d", "f">>, <<".", "t", "x", "t">>, <<".", "d", "o", "c">>, <<".", "d", "o", "c", "x">>}

\* doc_name of lines 1228-1231: the file name without a trailing .pdf, .txt, .doc or .docx
CleanFileName(file_name) ==
    IF \E e \in Extensions : Len(file_name) >= Len(e)
                             /\ SubSeq(file_name, Len(file_name) - Len(e) + 1, Len(file_name)) = e
    THEN LET dot == CHOOSE i \in 1..Len(file_name) :
                        file_name[i] = "." /\ \A j \in (i + 1)..Len(file_name) : file_name[j] # "."
         IN  SubSeq(file_name, 1, dot - 1)
    ELSE file_name

\* `if chunk.file_name`: present and not empty
HasFileName(chunk) == ~IsNone(chunk.file_name) /\ Get(chunk.file_name) # <<>>

\* a variant that forgets the strip()
SkippedWhenEmpty(chunk) == IsNone(chunk.text) \/ Get(chunk.text) = <<>>

\* `if not chunk.text or not chunk.text.strip(): continue`, lines 1223 and 1248
SkippedByFormatter(chunk) == ~HasText(chunk.text)

\* the entry f"{prefix}:\n{chunk.text}" of _format_chunks
ContextEntry(chunk) ==
    [document |-> IF HasFileName(chunk) THEN CleanFileName(Get(chunk.file_name))
                  ELSE chunk.document_id,
     page |-> chunk.page_number,
     text |-> Get(chunk.text)]

\* the entry of _format_chunks_for_logging: the metadata lines and the text
LogEntry(chunk) ==
    [label |-> IF HasFileName(chunk) THEN "Document" ELSE "Document ID",
     document |-> IF HasFileName(chunk) THEN CleanFileName(Get(chunk.file_name))
                  ELSE chunk.document_id,
     page |-> chunk.page_number,
     chunk_index |-> chunk.chunk_index,
     similarity |-> chunk.similarity,
     text |-> Get(chunk.text)]

RECURSIVE FormatEntries(_, _)
\* the loop of both formatters: one entry per chunk that is not skipped, in order
FormatEntries(chunks, kind) ==
    IF chunks = <<>> THEN <<>>
    ELSE (IF SkippedByFormatter(Head(chunks)) THEN <<>>
          ELSE <<IF kind = "log" THEN LogEntry(Head(chunks)) ELSE ContextEntry(Head(chunks))>>)
         \o FormatEntries(Tail(chunks), kind)

\* RagService._format_chunks
format_chunks(chunks) ==
    LET formatted == FormatEntries(chunks, "context")
    IN  IF formatted # <<>> THEN [sentinel |-> "", entries |-> formatted]
        ELSE [sentinel |-> NoContextSentinel, entries |-> <<>>]

\* RagService._format_chunks_for_logging
format_chunks_for_logging(chunks) ==
    LET formatted_chunks == FormatEntries(chunks, "log")
    IN  IF formatted_chunks # <<>> THEN [sentinel |-> "", entries |-> formatted_chunks]
        ELSE [sentinel |-> NoChunksSentinel, entries |-> <<>>]

-----------------------------------------------------------------------------
(* The completion request: rag.py lines 882-904 and 952-974                *)

\* a variant that sends the context message whatever the context is
chat_messages_with_any_context(context, question, history) ==
    <<[role |-> "system", kind |-> "SYSTEM_PROMPT", text |-> <<>>],
      [role |-> "system", kind |-> "Patient Context", text |-> <<>>],
      [role |-> "system", kind |-> "prompt", text |-> <<>>]>>
    \o [i \in 1..Len(history) |->
            [role |-> history[i].role, kind |-> "history", text |-> history[i].content]]
    \o (IF ~IsNone(question) /\ Get(question) # <<>>
        THEN <<[role |-> "user", kind |-> "question", text |-> Get(question)]>> ELSE <<>>)

\* messages of _chat_completion and _chat_completion_stream; question is None or the text
chat_messages(context, question, history) ==
    <<[role |-> "system", kind |-> "SYSTEM_PROMPT", text |-> <<>>]>>
    \o (IF context.entries # <<>> /\ context.sentinel # NoContextSentinel
        THEN <<[role |-> "system", kind |-> "Patient Context", text |-> <<>>]>> ELSE <<>>)
    \o <<[role |-> "system", kind |-> "prompt", text |-> <<>>]>>
    \o [i \in 1..Len(history) |->
            [role |-> history[i].role, kind |-> "history", text |-> history[i].content]]
    \o (IF ~IsNone(question) /\ Get(question) # <<>>
        THEN <<[role |-> "user", kind |-> "question", text |-> Get(question)]>> ELSE <<>>)

-----------------------------------------------------------------------------
(* RagService.answer_question (lines 401-558) and answer_question_stream   *)
(* (lines 1067-1199).  The record c holds the locals of one call; c.pc is  *)
(* the await (or yield) the call is suspended at; c.io lists the calls     *)
(* made to the collaborators, in order.                                    *)

\* chunk_limit of the comprehensive branch, lines 426 and 1092
ComprehensiveChunkLimit == 25

\* retrieval_limit of the comprehensive branch with reranking, lines 427 and 1093
ComprehensiveRetrievalLimit == 100

\* min_sim of the comprehensive branch, lines 428 and 1094, in hundredths
ComprehensiveMinSim == 15

\* limit_per_document of lines 474 and 1135
LimitPerDocument == 5

IoCall(op, limit, term) == [op |-> op, limit |-> limit, term |-> term]

\* the locals of a call that has not started
NewCall(mode, question, history) ==
    [mode |-> mode, question |-> question, history |-> history, pc |-> "start",
     last_n_count |-> None, asks_for_all |-> FALSE,
     chunk_limit |-> 0, retrieval_limit |-> 0, min_sim |-> 0,
     lab_keywords |-> {}, primary_keyword |-> None, document_ids |-> {},
     semantic |-> <<>>, keyword_chunks |-> <<>>, related_chunks |-> <<>>, merged |-> <<>>,
     chunks_after_channels |-> <<>>, chunks_before_rerank |-> <<>>,
     chunks |-> <<>>, context |-> [sentinel |-> "", entries |-> <<>>], messages |-> <<>>,
     message |-> None, full_response |-> <<>>, produced |-> <<>>, forwarded |-> <<>>,
     fragments |-> 0,
     log_request |-> None, returned |-> None, io |-> <<>>, statements |-> <<>>, error |-> ""]

\* an exception leaves the call: nothing in answer_question catches it
Raise(c, error) == [c EXCEPT !.pc = "raised", !.error = error]

\* a variant that tests the count for truth, as `if asks_for_all or last_n_count` would
StartWideForPositiveCount(c, s) ==
    LET question_lower == Lower(c.question)
        n == last_n_count(question_lower)
        all == asks_for_all(question_lower)
        comprehensive == all \/ (~IsNone(n) /\ Get(n) # 0)
        chunk_limit == IF comprehensive THEN ComprehensiveChunkLimit
                       ELSE s.max_retrieval_chunks_chat
        retrieval_limit ==
            IF comprehensive
            THEN (IF s.rerank_enabled THEN ComprehensiveRetrievalLimit ELSE chunk_limit)
            ELSE (IF s.rerank_enabled THEN s.rerank_top_n ELSE chunk_limit)
    IN  [c EXCEPT !.last_n_count = n, !.asks_for_all = all,
                  !.chunk_limit = chunk_limit, !.retrieval_limit = retrieval_limit,
                  !.min_sim = IF comprehensive THEN ComprehensiveMinSim
                              ELSE s.min_similarity_score_chat,
                  !.io = Append(@, IoCall("create_embedding", 0, <<>>)),
                  !.pc = "embedding"]

\* lines 413-436: the intent, the limits, and the embedding request
Start(c, s) ==
    LET question_lower == Lower(c.question)
        n == last_n_count(question_lower)
        all == asks_for_all(question_lower)
        comprehensive == all \/ ~IsNone(n)
        chunk_limit == IF comprehensive THEN ComprehensiveChunkLimit
                       ELSE s.max_retrieval_chunks_chat
        retrieval_limit ==
            IF comprehensive
            THEN (IF s.rerank_enabled THEN ComprehensiveRetrievalLimit ELSE chunk_limit)
            ELSE (IF s.rerank_enabled THEN s.rerank_top_n ELSE chunk_limit)
    IN  [c EXCEPT !.last_n_count = n, !.asks_for_all = all,
                  !.chunk_limit = chunk_limit, !.retrieval_limit = retrieval_limit,
                  !.min_sim = IF comprehensive THEN ComprehensiveMinSim
                              ELSE s.min_similarity_score_chat,
                  !.io = Append(@, IoCall("create_embedding", 0, <<>>)),
                  !.pc = "embedding"]

\* a variant that swallows the failure and goes on to the vector search
EmbeddingFailureSwallowed(c) ==
    [c EXCEPT !.error = "create_embedding",
              !.io = Append(@, IoCall("search_similar_chunks", c.retrieval_limit, <<>>)),
              !.pc = "vector_search"]

\* _create_embedding, lines 1209-1216: a failure of the embedding request is raised again (as
\* it is, or as a ValueError naming the model), and line 436 does not catch it
EmbeddingFailed(c) == Raise(c, "create_embedding")

\* lines 436-445: the embedding is back, the vector search is requested
AfterEmbedding(c, s) ==
    [c EXCEPT !.io = Append(@, IoCall("search_similar_chunks", c.retrieval_limit, <<>>)),
              !.pc = "vector_search"]

\* lines 520-526 (1159-1169): the request is built from the context and the completion asked for
RequestCompletion(c, chunks, context) ==
    [c EXCEPT !.chunks_before_rerank = c.chunks,
              !.chunks = chunks, !.context = context,
              !.messages = chat_messages(context, Some(c.question), c.history),
              !.io = Append(@, IoCall("chat_completion", 0, <<>>)),
              !.pc = "completion"]

\* line 514 (1153): context = self._format_chunks(chunks)
FormatContext(c, chunks) == RequestCompletion(c, chunks, format_chunks(chunks))

\* lines 490-526 (1149-1169): rerank, format, build the request and ask for the completion
Complete(c, s) ==
    FormatContext(c, IF s.rerank_enabled /\ c.chunks # <<>>
                     THEN rerank_chunks(c.chunks, c.question, c.chunk_limit, s)
                     ELSE c.chunks)

\* a variant that asks for the vector search again before falling back
AfterChannelsRetrying(c, s) ==
    IF c.chunks = <<>> /\ Len(c.io) < 4
    THEN [c EXCEPT !.io = Append(@, IoCall("search_similar_chunks", c.retrieval_limit, <<>>)),
                   !.pc = "vector_search"]
    ELSE IF c.chunks = <<>>
    THEN [c EXCEPT !.io = Append(@, IoCall("fetch_recent_chunks", c.retrieval_limit, <<>>)),
                   !.pc = "recent_chunks"]
    ELSE Complete(c, s)

\* lines 487-488 (1146-1147): the fallback to the most recent chunks.  chunks_after_channels
\* keeps the list that line 487 tests, chunks_before_rerank the one that line 491 tests
AfterChannels(c, s) ==
    LET c1 == [c EXCEPT !.chunks_after_channels = c.chunks]
    IN  IF c.chunks = <<>>
        THEN [c1 EXCEPT !.io = Append(@, IoCall("fetch_recent_chunks", c.retrieval_limit,
                                                <<>>)),
                        !.pc = "recent_chunks"]
        ELSE Complete(c1, s)

\* a variant that asks for the keyword search whenever the question needs hybrid search
AfterVectorSearchAlwaysHybrid(c, s, found, hybrid, lab_keywords, primary) ==
    LET c1 == [c EXCEPT !.chunks = found.chunks, !.semantic = found.chunks,
                        !.merged = found.chunks, !.statements = found.queries]
    IN  IF hybrid
        THEN [c1 EXCEPT !.lab_keywords = lab_keywords, !.primary_keyword = Some(primary),
                        !.io = Append(@, IoCall("search_chunks_by_keyword",
                                                c.chunk_limit * 2, primary)),
                        !.pc = "keyword_search"]
        ELSE AfterChannels(c1, s)

\* lines 445-458: the semantic chunks are back; the keyword search is requested for a question
\* that needs hybrid search (hybrid is _needs_hybrid_search(question)) and names a lab keyword
\* (lab_keywords is _extract_lab_keywords(question), primary is max(lab_keywords, key=len))
AfterVectorSearch(c, s, found, hybrid, lab_keywords, primary) ==
    LET c1 == [c EXCEPT !.chunks = found.chunks, !.semantic = found.chunks,
                        !.merged = found.chunks, !.statements = found.queries]
    IN  IF hybrid /\ lab_keywords # {}
        THEN [c1 EXCEPT !.lab_keywords = lab_keywords, !.primary_keyword = Some(primary),
                        !.io = Append(@, IoCall("search_chunks_by_keyword",
                                                c.chunk_limit * 2, primary)),
                        !.pc = "keyword_search"]
        ELSE AfterChannels(c1, s)

\* a variant that appends without looking at chunk_ids_seen
MergeAll(chunks, new) == chunks \o new

\* a variant that puts the unseen chunks in front of the list
MergeUnseenInFront(chunks, new) ==
    SelectSeq(new, LAMBDA n : n.chunk_id \notin {chunks[i].chunk_id : i \in 1..Len(chunks)})
        \o chunks

RECURSIVE MergeUnseen(_, _)
\* lines 461-465 and 478-481: append the chunks whose chunk_id was not seen yet
MergeUnseen(chunks, new) ==
    IF new = <<>> THEN chunks
    ELSE MergeUnseen(
            IF Head(new).chunk_id \in {chunks[i].chunk_id : i \in 1..Len(chunks)}
            THEN chunks ELSE Append(chunks, Head(new)),
            Tail(new))

\* a variant that cuts the merged list to retrieval_limit
CapAtRetrievalLimit(c) ==
    IF Len(c.chunks) > c.retrieval_limit
    THEN [c EXCEPT !.chunks = Take(c.chunks, c.retrieval_limit)]
    ELSE c

\* lines 483-485: the cap on the merged list
Cap(c) ==
    IF Len(c.chunks) > c.retrieval_limit * 2
    THEN [c EXCEPT !.chunks = Take(c.chunks, c.retrieval_limit * 2)]
    ELSE c

\* lines 460-475: the keyword chunks are back and merged; the chunks of their documents are
\* requested
AfterKeywordSearch(c, s, keyword_chunks) ==
    LET merged == MergeUnseen(c.chunks, keyword_chunks)
        document_ids == {keyword_chunks[i].document_id : i \in 1..Len(keyword_chunks)}
        c1 == [c EXCEPT !.keyword_chunks = keyword_chunks, !.chunks = merged,
                        !.merged = merged, !.document_ids = document_ids,
                        !.statements = <<>>]
    IN  IF document_ids # {}
        THEN [c1 EXCEPT !.io = Append(@, IoCall("fetch_chunks_by_documents",
                                                LimitPerDocument, <<>>)),
                        !.pc = "document_chunks"]
        ELSE AfterChannels(Cap(c1), s)

\* lines 477-485: the related chunks are back and merged, the list is capped
AfterDocumentChunks(c, s, related_chunks) ==
    LET merged == MergeUnseen(c.chunks, related_chunks)
    IN  AfterChannels(Cap([c EXCEPT !.related_chunks = related_chunks, !.chunks = merged,
                                    !.merged = merged]), s)

\* a variant that goes on with the empty list
AfterRecentChunksDropped(c, s, recent) ==
    Complete([c EXCEPT !.statements = <<>>], s)

\* line 488: the recent chunks replace the empty list
AfterRecentChunks(c, s, recent) ==
    Complete([c EXCEPT !.chunks = recent, !.statements = <<>>], s)

\* lines 531-556 (1174-1199): the audit log.  Without a log repository nothing is written; an
\* exception raised while the chunks are formatted for the log is caught like one of the write
LogOrFinish(c, s, response, format_raises) ==
    IF ~s.has_log_repo \/ format_raises
    THEN [c EXCEPT !.pc = "returned",
                   !.returned = IF c.mode = "answer" THEN c.message ELSE None]
    ELSE [c EXCEPT !.log_request = Some([user_query |-> c.question, response |-> response,
                                         chunks_extracted |-> format_chunks_for_logging(c.chunks)]),
                   !.io = Append(@, IoCall("log_rag_query", 0, <<>>)),
                   !.pc = "logging"]

\* lines 520-556: the completion is back (content is None or the text), the log is requested
AfterCompletion(c, s, content, format_raises) ==
    LET message == IF IsNone(content) THEN <<>> ELSE Get(content)
    IN  LogOrFinish([c EXCEPT !.message = Some(message), !.statements = <<>>], s, message,
                    format_raises)

\* a variant without the except clause of line 554
AfterLoggingPropagates(c, raised) ==
    IF raised THEN Raise(c, "log_rag_query")
    ELSE [c EXCEPT !.pc = "returned", !.returned = IF c.mode = "answer" THEN c.message ELSE None]

\* lines 554-558 (1197-1199): the log write is back, or has raised and is only reported
AfterLogging(c, raised) ==
    [c EXCEPT !.pc = "returned", !.returned = IF c.mode = "answer" THEN c.message ELSE None]

\* lines 981-988: the streaming completion has been opened
AfterStreamOpen(c) == [c EXCEPT !.pc = "streaming", !.statements = <<>>]

\* a variant that puts the new fragment in front of the text accumulated
AfterFragmentPrepended(c, content) ==
    IF IsNone(content) \/ Get(content) = <<>>
    THEN [c EXCEPT !.fragments = @ + 1, !.produced = Append(@, content)]
    ELSE [c EXCEPT !.fragments = @ + 1, !.produced = Append(@, content),
                   !.full_response = Get(content) \o @,
                   !.forwarded = Append(@, Get(content)),
                   !.pc = "yielded"]

\* lines 990-994 and 1161-1169: a fragment of the stream; one with content is accumulated and
\* yielded to the consumer, the others are skipped.  produced keeps what the gateway sent
AfterFragment(c, content) ==
    IF IsNone(content) \/ Get(content) = <<>>
    THEN [c EXCEPT !.fragments = @ + 1, !.produced = Append(@, content)]
    ELSE [c EXCEPT !.fragments = @ + 1, !.produced = Append(@, content),
                   !.full_response = @ \o Get(content),
                   !.forwarded = Append(@, Get(content)),
                   !.pc = "yielded"]

\* line 1169: the consumer asks for the next fragment
AfterResume(c) == [c EXCEPT !.pc = "streaming"]

\* the consumer closes the generator while it is suspended at the yield of line 1169
\* (GeneratorExit), or its task is cancelled while the generator awaits the next fragment
\* (CancelledError): neither is an Exception, and no handler or finally clause is around
AfterClose(c) == [c EXCEPT !.pc = "closed"]

\* lines 1171-1199: the stream is exhausted, the log is requested
AfterStreamEnd(c, s, format_raises) ==
    LogOrFinish(c, s, c.full_response, format_raises)

-----------------------------------------------------------------------------
(* The structured response parser: rag.py lines 831-870, the part of       *)
(* _structured_completion that follows the completion.                      *)

RECURSIVE splitlines(_)
\* str.splitlines() for texts whose only line break is "\n": a text that ends with a line
\* break has no empty last line
splitlines(s) ==
    IF s = <<>> THEN <<>>
    ELSE LET brk == {i \in 1..Len(s) : s[i] = "\n"}
         IN  IF brk = {} THEN <<s>>
             ELSE LET i == CHOOSE b \in brk : \A c \in brk : b <= c
                  IN  <<SubSeq(s, 1, i - 1)>> \o splitlines(SubSeq(s, i + 1, Len(s)))

\* line 831
DefaultHeadline == <<"O", "v", "e", "r", "a", "l", "l", " ", "S", "t", "a", "t", "u", "s", ":", " ", "C", "l", "i", "n", "i", "c", "a", "l", " ", "U", "p", "d", "a", "t", "e">>

W_HEADLINE == <<"H", "E", "A", "D", "L", "I", "N", "E", ":">>

W_BULLETS == <<"B", "U", "L", "L", "E", "T", "S", ":">>

W_Overall_Status == <<"O", "v", "e", "r", "a", "l", "l", " ", "S", "t", "a", "t", "u", "s", ":">>

\* the characters of lstrip("-(U+2022)*0123456789. "), lines 849 and 858
MarkerChars == {"-", BulletGlyph, "*", ".", " "} \cup Range(Digits)

\* line.upper().startswith("HEADLINE:")
IsHeadlineLine(line) == StartsWith(Upper(line), W_HEADLINE)

\* line.upper().startswith("BULLETS:")
IsBulletsLine(line) == StartsWith(Upper(line), W_BULLETS)

\* a variant that prefixes every headline
HeadlineAlwaysPrefixed(line) ==
    LET colon == CHOOSE i \in 1..Len(line) : line[i] = ":" /\ \A j \in 1..(i - 1) : line[j] # ":"
    IN  W_Overall_Status \o <<" ">> \o Strip(SubSeq(line, colon + 1, Len(line)))

\* lines 841-845: the headline of a stripped line that starts with HEADLINE:
HeadlineOf(line) ==
    LET colon == CHOOSE i \in 1..Len(line) : line[i] = ":" /\ \A j \in 1..(i - 1) : line[j] # ":"
        headline_text == Strip(SubSeq(line, colon + 1, Len(line)))
    IN  IF StartsWith(headline_text, W_Overall_Status) THEN headline_text
        ELSE W_Overall_Status \o <<" ">> \o headline_text

\* line.lstrip("-(U+2022)*0123456789. ").strip()
StripMarker(line) == Strip(SubSeq(line, LStripIdx(line, 1, MarkerChars), Len(line)))

RECURSIVE ScanLines(_, _)
\* lines 835-851, the first pass over the lines
ScanLines(lines, st) ==
    IF lines = <<>> THEN st
    ELSE LET line == Strip(Head(lines))
             next ==
                IF line = <<>> THEN st
                ELSE IF IsHeadlineLine(line) THEN [st EXCEPT !.headline = HeadlineOf(line)]
                ELSE IF IsBulletsLine(line) THEN [st EXCEPT !.in_bullets_section = TRUE]
                ELSE IF st.in_bullets_section /\ StripMarker(line) # <<>>
                THEN [st EXCEPT !.bullets = Append(@, StripMarker(line))]
                ELSE st
         IN  ScanLines(Tail(lines), next)

\* the condition of lines 856-857 on a stripped line
StartsLikeBullet(line) ==
    /\ line # <<>>
    /\ \/ StartsWith(line, <<"-">>)
       \/ StartsWith(line, <<BulletGlyph>>)
       \/ IsDigit(line[1]) /\ Contains(Take(line, 3), <<".">>)

RECURSIVE MarkedLines(_)
\* lines 853-860, the second pass
MarkedLines(lines) ==
    IF lines = <<>> THEN <<>>
    ELSE LET line == Strip(Head(lines))
         IN  (IF StartsLikeBullet(line) /\ StripMarker(line) # <<>>
              THEN <<StripMarker(line)>> ELSE <<>>)
             \o MarkedLines(Tail(lines))

RECURSIVE ContentLines(_)
\* lines 863-864: the stripped non-empty lines, but for a line that starts with HEADLINE:
\* before it is stripped
ContentLines(lines) ==
    IF lines = <<>> THEN <<>>
    ELSE (IF Strip(Head(lines)) # <<>> /\ ~IsHeadlineLine(Head(lines))
          THEN <<Strip(Head(lines))>> ELSE <<>>)
         \o ContentLines(Tail(lines))

\* a variant that always takes the whole text as the one bullet
WholeTextFallback(content) == <<Strip(content)>>

\* lines 862-868, the last fallback
LastFallback(content) ==
    LET content_lines == ContentLines(splitlines(content))
    IN  IF content_lines # <<>> THEN content_lines ELSE <<Strip(content)>>

\* lines 831-870: the headline and the bullets read off the completion's text
parse(content) ==
    LET lines == splitlines(content)
        first == ScanLines(lines, [headline |-> DefaultHeadline, bullets |-> <<>>,
                                   in_bullets_section |-> FALSE])
        bullets == IF first.bullets # <<>> THEN first.bullets
                   ELSE IF MarkedLines(lines) # <<>> THEN MarkedLines(lines)
                   ELSE LastFallback(content)
    IN  [headline |-> first.headline, bullets |-> bullets]

-----------------------------------------------------------------------------
(* The inputs *)

\* the largest number of rows of the patient in patient_chunks
MaxRows == 2

\* the largest number of fragments the completion gateway streams
MaxFragments == 2

RowKinds == {"lab", "note", "blank", "remote"}

Doc1 == <<"d", "1">>

Doc2 == <<"d", "2">>

\* the i-th row of the table, of the given kind: a lab report that names bp, a visit note that
\* names it with a lower similarity, a row without text (None, or only whitespace), a row far
\* from any question.  Similarities are distinct within a table.
Row(kind, i) ==
    [chunk_id |-> i,
     chunk_index |-> IF kind \in {"lab", "blank"} THEN Some(i) ELSE None,
     document_id |-> IF kind \in {"lab", "blank"} THEN Doc1 ELSE Doc2,
     file_name |-> CASE kind = "lab" -> Some(<<"l", "a", "b", "s", ".", "p", "d", "f">>)
                     [] kind = "note" -> Some(<<"v", "i", "s", "i", "t", ".", "v", "2", ".", "t", "x", "t">>)
                     [] kind = "blank" -> Some(<<>>)
                     [] OTHER -> None,
     page_number |-> IF kind = "lab" THEN Some(i) ELSE None,
     text |-> CASE kind = "lab" -> Some(<<"B", "P", " ", "1", "2">> \o <<Digits[(i % 10) + 1]>>)
                [] kind = "note" -> Some(<<"s", "e", "e", "n", ";", " ", "b", "p", " ", "o", "k", ",", " ", "b", "p", " ">> \o <<Digits[(i % 10) + 1]>>)
                [] kind = "blank" -> (IF i % 2 = 1 THEN Some(<<" ", "\n">>) ELSE None)
                [] OTHER -> Some(<<"x", Digits[(i % 10) + 1]>>),
     sim |-> CASE kind = "lab" -> Some(90 - i)
               [] kind = "note" -> Some(29 - i)
               [] kind = "blank" -> Some(70 - i)
               [] OTHER -> Some(14 - i)]

RECURSIVE KindLists(_)
\* the lists of at most n row kinds
KindLists(n) ==
    IF n = 0 THEN {<<>>}
    ELSE KindLists(n - 1) \cup
         {Append(ks, k) : ks \in {l \in KindLists(n - 1) : Len(l) = n - 1}, k \in RowKinds}

\* a table of lab reports with more rows than twice the smallest retrieval limit
LabReports == [i \in 1..(MaxRows + 1) |-> Row("lab", i)]

Stores == {[i \in 1..Len(ks) |-> Row(ks[i], i)] : ks \in KindLists(MaxRows)} \cup {LabReports}

\* the tables the streaming calls run on: lab reports only
StreamStores == {[i \in 1..n |-> Row("lab", i)] : n \in 0..MaxRows}

Q_bp == <<"b", "p", "?">>

Q_list_bp == <<"l", "i", "s", "t", " ", "b", "p">>

Q_last_3_bp == <<"L", "a", "s", "t", " ", "3", " ", "b", "p">>

Q_full_bp == <<"f", "u", "l", "l", " ", "b", "p">>

Q_list_meds == <<"l", "i", "s", "t", " ", "m", "e", "d", "s">>

Q_last_0_bp == <<"l", "a", "s", "t", " ", "0", " ", "b", "p">>

Q_list_bp_hdl_ldl ==
    <<"l", "i", "s", "t", " ", "b", "p", " ", "h", "d", "l", " ", "l", "d", "l">>

\* a table whose rows name the lipids, in two documents
LipidPanel ==
    <<[Row("lab", 1) EXCEPT !.text = Some(<<"H", "D", "L", " ", "4", "1">>)],
      [Row("note", 2) EXCEPT !.text = Some(<<"h", "d", "l", " ", "o", "k">>)],
      [Row("lab", 3) EXCEPT !.text = Some(<<"L", "D", "L", " ", "9", "0">>)]>>

Questions == {Q_bp, Q_list_bp, Q_last_3_bp, Q_full_bp, Q_list_meds, Q_last_0_bp}

StreamQuestions == {Q_bp, Q_list_bp, Q_last_0_bp}

Histories == {<<>>, <<[role |-> "user", content |-> <<"h", "i">>],
                      [role |-> "assistant", content |-> <<"h", "e", "l", "l", "o">>]>>}

\* Settings.min_similarity_score_chat, in hundredths
MinSimilarityScoreChat == 30

\* Settings with the weights of the reranker in tenths, and whether RagService was given a
\* log repository
SettingsOf(rerank_enabled, rerank_top_n, has_log_repo) ==
    [rerank_enabled |-> rerank_enabled, has_log_repo |-> has_log_repo,
     max_retrieval_chunks_chat |-> 1, rerank_top_n |-> rerank_top_n,
     min_similarity_score_chat |-> MinSimilarityScoreChat,
     rerank_similarity_weight |-> 5, rerank_keyword_weight |-> 3,
     rerank_recency_weight |-> 2]

SettingsChoices ==
    {SettingsOf(TRUE, 2, TRUE), SettingsOf(TRUE, 1, TRUE), SettingsOf(FALSE, 2, TRUE),
     SettingsOf(TRUE, 2, FALSE)}

CompletionContents == {None, Some(<<"S", "t", "a", "b", "l", "e", ".">>)}

FragmentContents == {None, Some(<<"a">>), Some(<<"b">>)}

NoProbe == [fn |-> "none"]

-----------------------------------------------------------------------------
(* One call, from its first line to its return *)

Init ==
    /\ settings \in SettingsChoices
    /\ \/ /\ store \in Stores
          /\ call \in {NewCall("answer", q, h) : q \in Questions, h \in Histories}
       \/ /\ store \in StreamStores
          /\ call \in {NewCall("stream", q, <<>>) : q \in StreamQuestions}
       \/ /\ store = LipidPanel
          /\ call \in {NewCall(mode, Q_list_bp_hdl_ldl, <<>>) : mode \in {"answer", "stream"}}
    /\ auditlog = <<>>
    /\ probe = NoProbe

Env == <<store, settings, auditlog, probe>>

StartCall ==
    /\ call.pc = "start"
    /\ call' = Start(call, settings)
    /\ UNCHANGED Env

EmbeddingReturns ==
    /\ call.pc = "embedding"
    /\ \E raised \in BOOLEAN :
        call' = IF raised THEN EmbeddingFailed(call) ELSE AfterEmbedding(call, settings)
    /\ UNCHANGED Env

VectorSearchReturns ==
    /\ call.pc = "vector_search"
    /\ LET hybrid == needs_hybrid_search(call.question)
           lab_keywords == IF hybrid THEN extract_lab_keywords(call.question) ELSE {}
       IN  \E db \in DbOutcomes :
            LET found == search_similar_chunks(store, call.retrieval_limit, call.min_sim, db)
            IN  IF found.raised
                THEN call' = [Raise(call, "search_similar_chunks")
                                EXCEPT !.statements = found.queries]
                ELSE \E primary \in (IF lab_keywords = {} THEN {<<>>}
                                     ELSE PrimaryKeywords(lab_keywords)) :
                        call' = AfterVectorSearch(call, settings, found, hybrid, lab_keywords,
                                                  primary)
    /\ UNCHANGED Env

KeywordSearchReturns ==
    /\ call.pc = "keyword_search"
    /\ \E raised \in BOOLEAN :
        call' = IF raised THEN Raise(call, "search_chunks_by_keyword")
                ELSE AfterKeywordSearch(call, settings,
                        search_chunks_by_keyword(store, Get(call.primary_keyword),
                                                 call.chunk_limit * 2))
    /\ UNCHANGED Env

DocumentChunksReturn ==
    /\ call.pc = "document_chunks"
    /\ \E raised \in BOOLEAN :
        call' = IF raised THEN Raise(call, "fetch_chunks_by_documents")
                ELSE AfterDocumentChunks(call, settings,
                        fetch_chunks_by_documents(store, call.document_ids,
                                                  LimitPerDocument))
    /\ UNCHANGED Env

RecentChunksReturn ==
    /\ call.pc = "recent_chunks"
    /\ \E raised \in BOOLEAN :
        call' = IF raised THEN Raise(call, "fetch_recent_chunks")
                ELSE AfterRecentChunks(call, settings,
                                       fetch_recent_chunks(store, call.retrieval_limit))
    /\ UNCHANGED Env

CompletionReturns ==
    /\ call.pc = "completion"
    /\ call.mode = "answer"
    /\ \E raised \in BOOLEAN, content \in CompletionContents, format_raises \in BOOLEAN :
        call' = IF raised THEN Raise(call, "chat_completion")
                ELSE AfterCompletion(call, settings, content, format_raises)
    /\ UNCHANGED Env

LogWriteReturns ==
    /\ call.pc = "logging"
    /\ \E raised \in BOOLEAN :
        /\ auditlog' = IF raised THEN auditlog ELSE Append(auditlog, Get(call.log_request))
        /\ call' = AfterLogging(call, raised)
    /\ UNCHANGED <<store, settings, probe>>

StreamOpens ==
    /\ call.pc = "completion"
    /\ call.mode = "stream"
    /\ \E raised \in BOOLEAN :
        call' = IF raised THEN Raise(call, "chat_completion") ELSE AfterStreamOpen(call)
    /\ UNCHANGED Env

StreamFragment ==
    /\ call.pc = "streaming"
    /\ call.fragments < MaxFragments
    /\ \E content \in FragmentContents : call' = AfterFragment(call, content)
    /\ UNCHANGED Env

StreamRaises ==
    /\ call.pc = "streaming"
    /\ call' = Raise(call, "chat_completion")
    /\ UNCHANGED Env

ConsumerResumes ==
    /\ call.pc = "yielded"
    /\ call' = AfterResume(call)
    /\ UNCHANGED Env

ConsumerStops ==
    /\ call.pc \in {"yielded", "streaming"}
    /\ call' = AfterClose(call)
    /\ UNCHANGED Env

StreamEnds ==
    /\ call.pc = "streaming"
    /\ \E format_raises \in BOOLEAN : call' = AfterStreamEnd(call, settings, format_raises)
    /\ UNCHANGED Env

Next ==
    \/ StartCall
    \/ EmbeddingReturns
    \/ VectorSearchReturns
    \/ KeywordSearchReturns
    \/ DocumentChunksReturn
    \/ RecentChunksReturn
    \/ CompletionReturns
    \/ LogWriteReturns
    \/ StreamOpens
    \/ StreamFragment
    \/ StreamRaises
    \/ ConsumerResumes
    \/ ConsumerStops
    \/ StreamEnds

Spec == Init /\ [][Next]_vars

-----------------------------------------------------------------------------
(* The helpers on their own: each is applied once to an input drawn from a *)
(* bounded set.  probe holds the function's name, its input, and its       *)
(* output once it has been applied.                                        *)

\* the largest number of words of a probed question
MaxTokens == 3

\* the largest number of rows of a probed table of lab reports
MaxStoreRows == 11

Vocabulary == {<<"l", "a", "s", "t", " ">>, <<"l", "a", "s", "t">>, <<"b">>, <<"3">>, <<"1", "2">>, <<"a", "l", "l", " ">>, <<"f", "u", "l", "l">>, <<"l", "i", "s", "t", " ">>, <<"b", "p">>}

RECURSIVE TokenLists(_)
\* the lists of at most n words of the vocabulary
TokenLists(n) ==
    IF n = 0 THEN {<<>>}
    ELSE TokenLists(n - 1) \cup
         {Append(ws, w) : ws \in {l \in TokenLists(n - 1) : Len(l) = n - 1}, w \in Vocabulary}

ProbeQuestions == {Concat(ws) : ws \in TokenLists(MaxTokens)}

\* the intent answer_question reads off a question: lines 413-421, 448 and 449
QueryIntent(question) ==
    [last_n_count |-> last_n_count(Lower(question)),
     asks_for_all |-> asks_for_all(Lower(question)),
     needs_hybrid_search |-> needs_hybrid_search(question),
     lab_keywords |-> extract_lab_keywords(question)]

\* tables of n lab reports, one of which (the b-th, if any) has no text
LabStores ==
    {[i \in 1..n |-> Row(IF i = b THEN "blank" ELSE "lab", i)] :
        n \in 0..MaxStoreRows, b \in 0..MaxStoreRows}

\* the limits answer_question can pass to the vector search (lines 427, 432), and one just
\* above the cap of the stored function
SearchLimits == {1, 2, StoredFunctionCap + 1, ComprehensiveChunkLimit, ComprehensiveRetrievalLimit}

\* the largest number of chunks of a formatted list
MaxChunks == 3

\* the chunk lists of at most MaxChunks rows, as the recent-chunks query yields them (without
\* similarity) and as the vector search does (with)
ChunkLists ==
    LET lists == UNION {[1..n -> RowKinds] : n \in 0..MaxChunks}
    IN  {[i \in 1..Len(ks) |-> ChunkOfRow(Row(ks[i], i))] : ks \in lists}
        \cup {[i \in 1..Len(ks) |-> ChunkOfSimilarityRow(Row(ks[i], i))] : ks \in lists}

\* the lists handed to the reranker: the rows of a table as the vector search yields them
\* (with similarity) and as the keyword and recent-chunks queries do (without)
RerankLists ==
    {[i \in 1..Len(rows) |-> ChunkOfSimilarityRow(rows[i])] : rows \in Stores}
    \cup {[i \in 1..Len(rows) |-> ChunkOfRow(rows[i])] : rows \in Stores}

\* reranking disabled, enabled, and enabled with a recency weight of 0, which leaves chunks
\* of equal similarity and keyword score with equal composite scores
RerankSettings ==
    {[enabled |-> FALSE, recency |-> 2], [enabled |-> TRUE, recency |-> 2],
     [enabled |-> TRUE, recency |-> 0]}

\* a question none of whose words is in a chunk, and one with a word of the visit notes
RerankQuestions == {Q_list_bp, <<"s", "e", "e", "n", "?">>}

\* the largest number of bullets of a well-formed completion
MaxBullets == 2

\* the largest number of lines of any other completion
MaxLines == 2

StatusTexts == {<<"S", "t", "a", "b", "l", "e">>, <<"S", "t", "a", "b", "l", "e", ":", " ", "n", "o", " ", "c", "h", "a", "n", "g", "e">>}

BulletTexts == {<<"A">>, <<"B">>, <<"b", "p", " ", "1", "2", "0", "/", "8", "0", " ", "-", " ", "o", "k", ".">>}

HeadlineLine(status) == W_HEADLINE \o <<" ">> \o W_Overall_Status \o <<" ">> \o status

BulletLine(text) == <<"-", " ">> \o text

\* the lines a completion may hold: empty and blank lines, plain text, headline and section
\* lines, and lines with each of the markers
LineVocabulary == {
    <<>>,
    <<" ", "\t">>,
    <<"P", "a", "t", "i", "e", "n", "t", " ", "s", "t", "a", "b", "l", "e", ".">>,
    <<" ", "n", "o", " ", "n", "e", "w", " ", "l", "a", "b", "s", " ">>,
    <<"H", "E", "A", "D", "L", "I", "N", "E", ":", " ", "o", "k">>,
    <<" ", "h", "e", "a", "d", "l", "i", "n", "e", ":", " ", "o", "k">>,
    W_BULLETS,
    <<"-", " ", "A">>,
    <<"*", " ", "B">>,
    <<"1", ".", " ", "C">>,
    <<BulletGlyph, " ", "1", "2", " ", "D">>,
    <<"-", " ", "7", ".", "2", " ", "h", "b", "a", "1", "c">>
}

RECURSIVE JoinLines(_)
\* "\n".join(lines)
JoinLines(lines) ==
    IF lines = <<>> THEN <<>>
    ELSE IF Len(lines) = 1 THEN lines[1]
    ELSE lines[1] \o <<"\n">> \o JoinLines(Tail(lines))

\* the completions in the format _structured_completion asks for: the headline line, the
\* section line, and a line per bullet
StructuredCompletions ==
    {[status |-> x, items |-> bs,
      lines |-> <<HeadlineLine(x), W_BULLETS>> \o [i \in 1..Len(bs) |-> BulletLine(bs[i])]] :
        x \in StatusTexts, bs \in UNION {[1..k -> BulletTexts] : k \in 1..MaxBullets}}

\* the other completions: any lines of the vocabulary
FreeCompletions == UNION {[1..n -> LineVocabulary] : n \in 0..MaxLines}

\* the largest number of chunks of a list scored for recency
MaxRecencyLen == 5

\* the lists scored for recency: n distinct chunks
RecencyLists == {[i \in 1..n |-> ChunkOfRow(Row("lab", i))] : n \in 1..MaxRecencyLen}

\* _normalize_patient_id: re.match(r'^P\d+-(.+?)-.+$'), group 1 when it matches.
\* \d+ takes every digit after the P, the group is the shortest non-empty run
\* that ends before a hyphen with at least one character after it.
normalize_patient_id(patient_id) ==
    LET n == Len(patient_id)
        d == LStripIdx(patient_id, 2, DigitChars)
        ends == {j \in (d + 1)..(n - 2) : patient_id[j + 1] = "-"}
    IN  IF /\ n >= 1 /\ patient_id[1] = "P"
           /\ d > 2 /\ d <= n /\ patient_id[d] = "-"
           /\ ends # {}
        THEN SubSeq(patient_id, d + 1, CHOOSE j \in ends : \A k \in ends : j <= k)
        ELSE patient_id

\* fetch_recent_chunks / search_similar_chunks: WHERE patient_id = $1 with the
\* normalized identifier; the chunk ids of the rows selected
chunks_of_patient(table, patient_id) ==
    {r.chunk_id : r \in {x \in Range(table) : x.patient_id = normalize_patient_id(patient_id)}}

P1_Ann_Lee == <<"P", "1", "-", "A", "n", "n", "-", "L", "e", "e">>

P2_Ann_Kim == <<"P", "2", "-", "A", "n", "n", "-", "K", "i", "m">>

P3_Bob_Ray == <<"P", "3", "-", "B", "o", "b", "-", "R", "a", "y">>

P12_Jo_Anne_Fox == <<"P", "1", "2", "-", "J", "o", "-", "A", "n", "n", "e", "-", "F", "o", "x">>

Key_Ann == <<"A", "n", "n">>

Key_Bob == <<"B", "o", "b">>

Id_P1_Ann == <<"P", "1", "-", "A", "n", "n">>

Id_lower == <<"p", "1", "-", "A", "n", "n", "-", "L", "e", "e">>

\* the patient identifiers a caller supplies
PatientIds == {P1_Ann_Lee, P2_Ann_Kim, P3_Bob_Ray, P12_Jo_Anne_Fox, Key_Ann, Id_P1_Ann, Id_lower}

\* the patient_chunks table: rows of several patients under their stored keys
PatientTables ==
    {<<[chunk_id |-> 1, patient_id |-> Key_Ann], [chunk_id |-> 2, patient_id |-> Key_Bob]>>,
     <<[chunk_id |-> 1, patient_id |-> Key_Ann], [chunk_id |-> 2, patient_id |-> Key_Ann],
       [chunk_id |-> 3, patient_id |-> Id_P1_Ann]>>}

ProbeInputs ==
    {[fn |-> "classify", question |-> q, done |-> FALSE] : q \in ProbeQuestions}
    \cup {[fn |-> "search_similar_chunks", rows |-> rows, limit |-> limit,
           min_similarity |-> min_similarity, db |-> db, done |-> FALSE] :
            rows \in Stores \cup LabStores, limit \in SearchLimits,
            min_similarity \in {ComprehensiveMinSim, MinSimilarityScoreChat},
            db \in DbOutcomes}
    \cup {[fn |-> "format_chunks", chunks |-> chunks, done |-> FALSE] : chunks \in ChunkLists}
    \cup {[fn |-> "rerank_chunks", input |-> chunks, chunks |-> chunks, question |-> q,
           top_k |-> top_k, rerank_enabled |-> w.enabled,
           rerank_recency_weight |-> w.recency, returned |-> <<>>] :
            chunks \in RerankLists, q \in RerankQuestions, top_k \in 0..(MaxRows + 1),
            w \in RerankSettings}
    \cup {[fn |-> "calculate_recency_score", chunks |-> chunks, done |-> FALSE] :
            chunks \in RecencyLists}
    \cup {[fn |-> "parse", shape |-> "structured", status |-> t.status, items |-> t.items,
           lines |-> t.lines, content |-> JoinLines(t.lines), done |-> FALSE] :
            t \in StructuredCompletions}
    \cup {[fn |-> "parse", shape |-> "free", lines |-> lines, content |-> JoinLines(lines),
           done |-> FALSE] : lines \in FreeCompletions}
    \cup {[fn |-> "fetch_recent_chunks", table |-> table, patient_id |-> a, other_id |-> b,
           done |-> FALSE] : table \in PatientTables, a \in PatientIds, b \in PatientIds}

InitHelpers ==
    /\ probe \in ProbeInputs
    /\ store = <<>>
    /\ settings = SettingsOf(TRUE, 2, TRUE)
    /\ call = NewCall("answer", <<>>, <<>>)
    /\ auditlog = <<>>

Classify ==
    /\ probe.fn = "classify" /\ ~probe.done
    /\ probe' = [fn |-> "classify", question |-> probe.question, done |-> TRUE,
                 intent |-> QueryIntent(probe.question)]
    /\ UNCHANGED <<store, settings, call, auditlog>>

SearchSimilarChunks ==
    /\ probe.fn = "search_similar_chunks" /\ ~probe.done
    /\ probe' = [fn |-> probe.fn, rows |-> probe.rows, limit |-> probe.limit,
                 min_similarity |-> probe.min_similarity, db |-> probe.db, done |-> TRUE,
                 found |-> search_similar_chunks(probe.rows, probe.limit,
                                                 probe.min_similarity, probe.db)]
    /\ UNCHANGED <<store, settings, call, auditlog>>

FormatChunks ==
    /\ probe.fn = "format_chunks" /\ ~probe.done
    /\ probe' = [fn |-> probe.fn, chunks |-> probe.chunks, done |-> TRUE,
                 context |-> format_chunks(probe.chunks),
                 log |-> format_chunks_for_logging(probe.chunks)]
    /\ UNCHANGED <<store, settings, call, auditlog>>

\* the settings of the service whose _rerank_chunks is called
RerankSettingsOf(p) ==
    [SettingsOf(p.rerank_enabled, p.top_k, TRUE)
        EXCEPT !.rerank_recency_weight = p.rerank_recency_weight]

\* _rerank_chunks is called, twice in a row, on the same list object
RerankChunks ==
    /\ probe.fn = "rerank_chunks" /\ Len(probe.returned) < 2
    /\ LET r == rerank_call(probe.chunks, probe.question, probe.top_k,
                            RerankSettingsOf(probe))
       IN  probe' = [probe EXCEPT !.chunks = r.chunks, !.returned = Append(@, r.returned)]
    /\ UNCHANGED <<store, settings, call, auditlog>>

\* _calculate_recency_score is called for every chunk of the list, as lines 356-365 do
RecencyScores ==
    /\ probe.fn = "calculate_recency_score" /\ ~probe.done
    /\ probe' = [fn |-> probe.fn, chunks |-> probe.chunks, done |-> TRUE,
                 scores |-> [i \in 1..Len(probe.chunks) |->
                                calculate_recency_score(probe.chunks, probe.chunks[i])]]
    /\ UNCHANGED <<store, settings, call, auditlog>>

\* _structured_completion reads the headline and the bullets off the completion's text
Parse ==
    /\ probe.fn = "parse" /\ ~probe.done
    /\ probe' = [probe EXCEPT !.done = TRUE] @@ [result |-> parse(probe.content)]
    /\ UNCHANGED <<store, settings, call, auditlog>>

\* two retrievals on one table, each for the identifier its caller supplied
FetchRecentChunks ==
    /\ probe.fn = "fetch_recent_chunks" /\ ~probe.done
    /\ probe' = [fn |-> probe.fn, table |-> probe.table, patient_id |-> probe.patient_id,
                 other_id |-> probe.other_id, done |-> TRUE,
                 keys |-> <<normalize_patient_id(probe.patient_id),
                            normalize_patient_id(probe.other_id)>>,
                 fetched |-> <<chunks_of_patient(probe.table, probe.patient_id),
                               chunks_of_patient(probe.table, probe.other_id)>>]
    /\ UNCHANGED <<store, settings, call, auditlog>>

NextHelpers ==
    \/ Parse
    \/ RecencyScores
    \/ Classify
    \/ SearchSimilarChunks
    \/ FormatChunks
    \/ RerankChunks
    \/ FetchRecentChunks

SpecHelpers == InitHelpers /\ [][NextHelpers]_vars

-----------------------------------------------------------------------------
(* Two answer_question calls on one RagService, interleaved at their       *)
(* awaits.  The service keeps _settings, _repo, _log_repo and the clients  *)
(* (lines 119-141); answer_question assigns none of them, and everything   *)
(* else it reads or writes is a local of the call.  Every collaborator     *)
(* answers a request as it would answer it to a call running alone: the    *)
(* chunk store from the table, the completion gateway with the question    *)
(* it was asked.                                                           *)

DbAllOk == [set_local |-> "ok", fn |-> "ok", fallback |-> "ok", retry |-> "ok"]

\* answer_question resumed at the await it is suspended at (or started), up to its next await
ResumeAlone(c, s, rows) ==
    CASE c.pc = "start" -> Start(c, s)
      [] c.pc = "embedding" -> AfterEmbedding(c, s)
      [] c.pc = "vector_search" ->
            LET hybrid == needs_hybrid_search(c.question)
                lab_keywords == IF hybrid THEN extract_lab_keywords(c.question) ELSE {}
                primary == IF lab_keywords = {} THEN <<>>
                           ELSE CHOOSE k \in PrimaryKeywords(lab_keywords) : TRUE
            IN  AfterVectorSearch(c, s,
                    search_similar_chunks(rows, c.retrieval_limit, c.min_sim, DbAllOk),
                    hybrid, lab_keywords, primary)
      [] c.pc = "keyword_search" ->
            AfterKeywordSearch(c, s,
                search_chunks_by_keyword(rows, Get(c.primary_keyword), c.chunk_limit * 2))
      [] c.pc = "document_chunks" ->
            AfterDocumentChunks(c, s,
                fetch_chunks_by_documents(rows, c.document_ids, LimitPerDocument))
      [] c.pc = "recent_chunks" ->
            AfterRecentChunks(c, s, fetch_recent_chunks(rows, c.retrieval_limit))
      [] c.pc = "completion" -> AfterCompletion(c, s, Some(c.question), FALSE)
      [] c.pc = "logging" -> AfterLogging(c, FALSE)
      [] OTHER -> c

\* a variant of a service that keeps the limits of lines 424-433 in attributes of its own,
\* which every call in progress then reads
ResumeSharingLimits(calls, k, s, rows) ==
    LET resumed == ResumeAlone(calls[k], s, rows)
    IN  [j \in 1..Len(calls) |->
            IF j = k THEN resumed
            ELSE IF calls[k].pc = "start" /\ calls[j].pc \notin {"start", "returned"}
            THEN [calls[j] EXCEPT !.chunk_limit = resumed.chunk_limit,
                                  !.retrieval_limit = resumed.retrieval_limit,
                                  !.min_sim = resumed.min_sim]
            ELSE calls[j]]

\* the event loop resumes call k: lines 413-558 assign locals of that call only
Resume(calls, k, s, rows) == [calls EXCEPT ![k] = ResumeAlone(calls[k], s, rows)]

RECURSIVE Alone(_, _, _)
\* the call run alone, from its start to its return
Alone(c, s, rows) ==
    IF c.pc = "returned" THEN c ELSE Alone(ResumeAlone(c, s, rows), s, rows)

\* each of the calls run alone
AloneEach(calls, s, rows) == [k \in 1..Len(calls) |-> Alone(calls[k], s, rows)] \o <<>>

ConcurrentQuestions == {Q_bp, Q_list_bp, Q_full_bp}

\* the pairs of calls made: not yet started
CallPairs ==
    {<<NewCall("answer", q1, <<>>), NewCall("answer", q2, <<>>)>> :
        q1 \in ConcurrentQuestions, q2 \in ConcurrentQuestions}

\* two calls not yet started, and for reference what each of them gives when it runs alone
\* on the same service and table
InitConcurrent ==
    /\ store \in StreamStores \cup {LabReports}
    /\ settings \in SettingsChoices
    /\ probe \in {[fn |-> "answer_question", interleaved |-> FALSE, calls |-> calls,
                    alone |-> AloneEach(calls, settings, store)] : calls \in CallPairs}
    /\ call = NewCall("answer", <<>>, <<>>)
    /\ auditlog = <<>>

\* whether a step of call k falls between two steps of another call
Interleaves(calls, k) ==
    \E j \in 1..Len(calls) : j # k /\ calls[j].pc \notin {"start", "returned"}

\* a call is started, or resumed when the collaborator it awaits has answered
ResumeCall ==
    /\ probe.fn = "answer_question"
    /\ \E k \in 1..Len(probe.calls) :
        /\ probe.calls[k].pc \notin {"logging", "returned"}
        /\ probe' = [probe EXCEPT
                        !.calls = Resume(probe.calls, k, settings, store),
                        !.interleaved = @ \/ Interleaves(probe.calls, k)]
    /\ UNCHANGED <<store, settings, call, auditlog>>

\* the log repository has written the record of a call, which is resumed and returns
ResumeAfterLogWrite ==
    /\ probe.fn = "answer_question"
    /\ \E k \in 1..Len(probe.calls) :
        /\ probe.calls[k].pc = "logging"
        /\ auditlog' = Append(auditlog, Get(probe.calls[k].log_request))
        /\ probe' = [probe EXCEPT
                        !.calls = [@ EXCEPT ![k] = AfterLogging(@, FALSE)],
                        !.interleaved = @ \/ Interleaves(probe.calls, k)]
    /\ UNCHANGED <<store, settings, call>>

NextConcurrent == ResumeCall \/ ResumeAfterLogWrite

SpecConcurrent == InitConcurrent /\ [][NextConcurrent]_vars

-----------------------------------------------------------------------------
(* Properties *)

Ops(c) == [i \in 1..Len(c.io) |-> c.io[i].op]

Ids(chunks) == {chunks[i].chunk_id : i \in 1..Len(chunks)}

DistinctIds(chunks) ==
    \A i, j \in 1..Len(chunks) : chunks[i].chunk_id = chunks[j].chunk_id => i = j

\* what the three channels returned, in the order they were asked
ChannelResults(c) == c.semantic \o c.keyword_chunks \o c.related_chunks

\* the first chunk of the list with the given chunk_id
FirstSeen(all, id) ==
    all[CHOOSE i \in 1..Len(all) :
            all[i].chunk_id = id /\ \A j \in 1..(i - 1) : all[j].chunk_id # id]

\* C1: in answer and in its streaming twin the merged list holds every chunk_id the semantic,
\* keyword and expansion channels returned exactly once, the instance kept is the one seen
\* first (semantic before keyword before expansion), and no later step repeats a chunk_id
C1_MergedOnceFirstSeen ==
    LET all == ChannelResults(call)
    IN  /\ DistinctIds(call.merged)
        /\ Ids(call.merged) = Ids(all)
        /\ \A i \in 1..Len(call.merged) :
                call.merged[i] = FirstSeen(all, call.merged[i].chunk_id)
        /\ DistinctIds(call.chunks)

\* the keyword channel returned a chunk the semantic channel had returned, with a similarity
\* there and without one here, and the expansion returned a chunk no channel had
C1_Witness_Overlap ==
    /\ call.pc = "completion"
    /\ \E i \in 1..Len(call.keyword_chunks), j \in 1..Len(call.semantic) :
            /\ call.keyword_chunks[i].chunk_id = call.semantic[j].chunk_id
            /\ call.keyword_chunks[i] # call.semantic[j]
    /\ Ids(call.related_chunks) \ (Ids(call.semantic) \cup Ids(call.keyword_chunks)) # {}

\* C2: in answer_question, once the completion text is there the call can only log and
\* return: no failure of the log (the write or the formatting for it) and no missing log
\* repository raises to the caller, and what is returned is the completion text
C2_LoggingNeverAltersAnswer ==
    call.mode = "answer" =>
        /\ call.error \notin {"log_rag_query", "format_chunks_for_logging"}
        /\ ~IsNone(call.message) => call.pc \in {"logging", "returned"}
        /\ call.pc = "returned" => (~IsNone(call.message) /\ call.returned = call.message)

\* the log write was requested and failed, and the non-empty completion text was returned
C2_Witness_LogWriteFailed ==
    /\ call.mode = "answer"
    /\ call.pc = "returned"
    /\ ~IsNone(call.log_request)
    /\ auditlog = <<>>
    /\ call.returned # Some(<<>>)

\* C3: in the streaming answer, when the consumer stops before the fragments are exhausted the
\* producer ends without an error and a log write with the text accumulated so far is
\* attempted
C3_PartialTextLoggedOnEarlyStop ==
    (call.mode = "stream" /\ call.pc = "closed" /\ settings.has_log_repo) =>
        /\ call.error = ""
        /\ ~IsNone(call.log_request)
        /\ Get(call.log_request).response = call.full_response

\* C4: the vector search is requested only once the embedding is back, and when the embedding
\* request fails the call raises that failure having asked nothing of the chunk store, of the
\* completion gateway or of the audit log
C4_EmbeddingBeforeSearch ==
    /\ call.pc = "start" => call.io = <<>>
    /\ (call.pc = "embedding" \/ call.error = "create_embedding") =>
            (Ops(call) = <<"create_embedding">> /\ auditlog = <<>> /\ IsNone(call.log_request))
    /\ call.error = "create_embedding" => call.pc = "raised"
    /\ \A i \in 1..Len(call.io) :
            call.io[i].op = "search_similar_chunks" =>
                (i = 2 /\ call.io[1].op = "create_embedding")

\* the embedding request failed and the call raised
C4_Witness_EmbeddingFailed ==
    call.pc = "raised" /\ call.error = "create_embedding"

Queries(statements) == {i \in 1..Len(statements) : statements[i] # "set_local"}

AtMostOnce(ops) == \A i, j \in 1..Len(ops) : ops[i] = ops[j] => i = j

C6_EmptyStoreStillCompletes ==
    (/\ call.chunks = <<>> /\ ChannelResults(call) = <<>>
     /\ \E i \in 1..Len(call.io) : call.io[i].op = "fetch_recent_chunks"
     /\ call.pc # "recent_chunks" /\ call.error # "fetch_recent_chunks") =>
        /\ call.context = [sentinel |-> NoContextSentinel, entries |-> <<>>]
        /\ \A i \in 1..Len(call.messages) : call.messages[i].kind # "Patient Context"
        /\ Cardinality({i \in 1..Len(call.io) : call.io[i].op = "chat_completion"}) = 1
        /\ call.messages # <<>>
        /\ call.messages[Len(call.messages)] =
                [role |-> "user", kind |-> "question", text |-> call.question]

\* a patient without any row, a conversation with history, the completion requested
C6_Witness_NoRows ==
    /\ store = <<>>
    /\ call.history # <<>>
    /\ call.pc = "completion"
    /\ call.chunks = <<>>

\* the text is absent, empty or made of whitespace only
Blank(text) == IsNone(text) \/ \A i \in 1..Len(Get(text)) : IsSpace(Get(text)[i])

\* the indices of the chunks that have text, in order
WithText(chunks) ==
    SelectIdx([i \in 1..Len(chunks) |-> ~Blank(chunks[i].text)], 1, Len(chunks))

\* C7: format and format_for_log leave out every chunk whose text is absent, empty or
\* whitespace-only and keep the others in input order; when none is left format returns its
\* 'no context available' sentinel and format_for_log its 'no chunks retrieved' sentinel
C7_FormattersDropBlankChunks ==
    (probe.fn = "format_chunks" /\ probe.done) =>
        LET keep == WithText(probe.chunks)
        IN  /\ Len(probe.context.entries) = Len(keep)
            /\ Len(probe.log.entries) = Len(keep)
            /\ \A k \in 1..Len(keep) :
                    /\ probe.context.entries[k].text = Get(probe.chunks[keep[k]].text)
                    /\ probe.context.entries[k].page = probe.chunks[keep[k]].page_number
                    /\ probe.log.entries[k].text = Get(probe.chunks[keep[k]].text)
                    /\ probe.log.entries[k].similarity = probe.chunks[keep[k]].similarity
            /\ probe.context.sentinel = IF keep = <<>> THEN NoContextSentinel ELSE ""
            /\ probe.log.sentinel = IF keep = <<>> THEN NoChunksSentinel ELSE ""

\* a list of a whitespace-only chunk, a chunk without text and a chunk with text, formatted
C7_Witness_BlankAhead ==
    /\ probe.fn = "format_chunks" /\ probe.done
    /\ Len(probe.chunks) >= 3
    /\ probe.chunks[1].text # None /\ Blank(probe.chunks[1].text)
    /\ probe.chunks[2].text = None
    /\ ~Blank(probe.chunks[3].text)
    /\ Len(probe.context.entries) = 1

\* C8: the vector search returns the top `limit` chunks: never more than limit, and exactly
\* limit when the patient has at least limit chunks with text at or above the threshold
C8_SearchReturnsTopLimit ==
    (probe.fn = "search_similar_chunks" /\ probe.done /\ ~probe.found.raised) =>
        LET eligible == {i \in 1..Len(probe.rows) :
                            /\ ~Blank(probe.rows[i].text)
                            /\ ~IsNone(probe.rows[i].sim)
                            /\ Get(probe.rows[i].sim) >= probe.min_similarity}
        IN  /\ Len(probe.found.chunks) <= probe.limit
            /\ Cardinality(eligible) >= probe.limit => Len(probe.found.chunks) = probe.limit

\* C9: whenever requested_count is set (the question holds 'last', whitespace, an integer) it
\* is that integer and wants_hybrid_search is true
C9_CountImpliesHybrid ==
    (probe.fn = "classify" /\ probe.done /\ ~IsNone(probe.intent.last_n_count)) =>
        /\ \E i, j, k \in 1..Len(probe.question) :
                /\ i + 4 < j /\ j <= k
                /\ SubSeq(Lower(probe.question), i, i + 3) = W_last
                /\ \A n \in (i + 4)..(j - 1) : IsSpace(probe.question[n])
                /\ \A n \in j..k : IsDigit(probe.question[n])
                /\ k = Len(probe.question) \/ ~IsDigit(probe.question[k + 1])
                /\ Get(probe.intent.last_n_count) = ParseInt(SubSeq(probe.question, j, k))
        /\ probe.intent.needs_hybrid_search

\* C10: whenever wants_exhaustive is true (the question holds 'all', 'every', 'complete' or
\* 'full') wants_hybrid_search is true
C10_ExhaustiveImpliesHybrid ==
    (probe.fn = "classify" /\ probe.done /\ probe.intent.asks_for_all) =>
        probe.intent.needs_hybrid_search

\* C11: for every chunk list and every top_k >= len(chunks), _rerank_chunks returns the input
\* sequence unchanged, with reranking disabled and with reranking enabled
C11_RerankKeepsShortLists ==
    (probe.fn = "rerank_chunks" /\ probe.returned # <<>> /\ probe.top_k >= Len(probe.input)) =>
        probe.returned[1] = probe.input

\* reranking is enabled, the list is as long as top_k, and its last chunk carries a higher
\* similarity than its first, so that a sort by score would move it
C11_Witness_EnabledFullList ==
    /\ probe.fn = "rerank_chunks" /\ probe.returned # <<>>
    /\ probe.rerank_enabled
    /\ Len(probe.input) = probe.top_k /\ probe.top_k >= 2
    /\ ~IsNone(probe.input[1].similarity) /\ ~IsNone(probe.input[probe.top_k].similarity)
    /\ Get(probe.input[1].similarity) < Get(probe.input[probe.top_k].similarity)

RecencyFallsAboveFloor(scores) ==
    /\ \A i, j \in 1..Len(scores) : i < j => scores[i] > scores[j]
    /\ \A i \in 1..Len(scores) : scores[i] >= ScoreScale \div 10

\* C13 as claimed: in a list of 5 the chunk at index 0 scores 1.0 and the chunk at index 4
\* scores the floor 0.1; in every list longer than 1 the score falls strictly with the index
\* and is never below 0.1
C13_RecencyEndsOnFloor ==
    (probe.fn = "calculate_recency_score" /\ probe.done) =>
        /\ Len(probe.scores) = 5 =>
                (probe.scores[1] = ScoreScale /\ probe.scores[5] = ScoreScale \div 10)
        /\ RecencyFallsAboveFloor(probe.scores)

\* C13, amended: in a list of 5 distinct chunks the chunk at index 0 scores 1.0 and the chunk
\* at index 4 scores exp(-2), about 0.135, as the last chunk of every list longer than 1 does,
\* so the floor 0.1 is never reached; the score falls strictly with the index and is never
\* below 0.1
C13_RecencyEndsOnExpMinus2 ==
    (probe.fn = "calculate_recency_score" /\ probe.done) =>
        /\ probe.scores[1] = ScoreScale
        /\ Len(probe.scores) > 1 => probe.scores[Len(probe.scores)] = 135335
        /\ RecencyFallsAboveFloor(probe.scores)

\* a list of 5 chunks has been scored
C13_Witness_FiveChunks ==
    probe.fn = "calculate_recency_score" /\ probe.done /\ Len(probe.chunks) = 5

NoMarkerLine(lines) ==
    \A i \in 1..Len(lines) :
        LET line == Strip(lines[i])
        IN  /\ ~StartsWith(Upper(line), W_HEADLINE)
            /\ ~StartsWith(Upper(line), W_BULLETS)
            /\ line # <<>> =>
                    /\ line[1] \notin {"-", BulletGlyph, "*"}
                    /\ ~(IsDigit(line[1]) /\ \E k \in 1..Min2(3, Len(line)) : line[k] = ".")

\* the lines that are not blank, stripped, in order
StrippedNonBlank(lines) ==
    LET keep == SelectIdx([i \in 1..Len(lines) |-> Strip(lines[i]) # <<>>], 1, Len(lines))
    IN  [k \in 1..Len(keep) |-> Strip(lines[keep[k]])]

\* C15 as claimed: for a text without a HEADLINE: line, a BULLETS: line or a bullet-marker
\* line the parser returns the default headline and exactly one bullet, the trimmed text
C15_OneBulletWithoutMarkers ==
    (probe.fn = "parse" /\ probe.done /\ probe.shape = "free" /\ NoMarkerLine(probe.lines)) =>
        /\ probe.result.headline = DefaultHeadline
        /\ probe.result.bullets = <<Strip(probe.content)>>

\* C15, amended: for such a text the parser returns the default headline and one bullet per
\* non-blank line, trimmed, in order; the single bullet that is the trimmed text is what a
\* text with at most one non-blank line gives
C15_BulletPerLineWithoutMarkers ==
    (probe.fn = "parse" /\ probe.done /\ probe.shape = "free" /\ NoMarkerLine(probe.lines)) =>
        /\ probe.result.headline = DefaultHeadline
        /\ probe.result.bullets =
                IF Len(StrippedNonBlank(probe.lines)) >= 2 THEN StrippedNonBlank(probe.lines)
                ELSE <<Strip(probe.content)>>

\* a text of two lines of plain words has been parsed
C15_Witness_TwoPlainLines ==
    /\ probe.fn = "parse" /\ probe.done /\ probe.shape = "free"
    /\ NoMarkerLine(probe.lines)
    /\ Len(StrippedNonBlank(probe.lines)) = 2
    /\ Len(probe.result.bullets) = 2

\* C16: the parser returns, for every text, at least one bullet, and no bullet it returns is
\* the empty string
C16_NoEmptyBullet ==
    (probe.fn = "parse" /\ probe.done) =>
        /\ Len(probe.result.bullets) >= 1
        /\ \A i \in 1..Len(probe.result.bullets) : probe.result.bullets[i] # <<>>


-----------------------------------------------------------------------------
(* The retrieval limits and the channels of answer_question               *)

Asked(c, op) == \E i \in 1..Len(c.io) : c.io[i].op = op

\* the context was formatted (line 514) and the completion was requested
ContextFormatted(c) == Asked(c, "chat_completion")

\* C17 as claimed: for every question and both values of rerank_enabled, the chunk list that
\* answer and its streaming twin hand to the context formatter has at most chunk_limit chunks
C17_ContextWithinChunkLimit ==
    ContextFormatted(call) => Len(call.chunks) <= call.chunk_limit

\* the channels have run: line 487 tested the list, and either the recent chunks or the
\* completion were requested
ChannelsDone(c) == Asked(c, "fetch_recent_chunks") \/ Asked(c, "chat_completion")

\* C18: after the hybrid merge, in answer and in its streaming twin, the chunk list has at
\* most 2 x retrieval_limit chunks; when the merged list is longer than that, the result is
\* exactly its first 2 x retrieval_limit chunks in arrival order, and otherwise all of it
C18_MergedListCapped ==
    ChannelsDone(call) =>
        /\ Len(call.chunks_after_channels) <= 2 * call.retrieval_limit
        /\ call.chunks_after_channels =
                IF Len(call.merged) > 2 * call.retrieval_limit
                THEN [i \in 1..(2 * call.retrieval_limit) |-> call.merged[i]]
                ELSE call.merged

C18_Witness_MergedOverCap ==
    /\ ChannelsDone(call)
    /\ Len(call.merged) > 2 * call.retrieval_limit
    /\ call.related_chunks # <<>>

RecentRequests(c) == {i \in 1..Len(c.io) : c.io[i].op = "fetch_recent_chunks"}

\* C19: the recent-chunks fallback is invoked if and only if the chunk list is empty after
\* the semantic channel and (when applicable) the keyword and expansion channels have run;
\* when it is invoked it is called once, with limit retrieval_limit, and its result replaces
\* the empty list
C19_FallbackIffEmpty ==
    /\ ~ChannelsDone(call) => RecentRequests(call) = {}
    /\ ChannelsDone(call) =>
            /\ RecentRequests(call) # {} <=> call.chunks_after_channels = <<>>
            /\ Cardinality(RecentRequests(call)) <= 1
            /\ \A i \in RecentRequests(call) : call.io[i].limit = call.retrieval_limit
    /\ ContextFormatted(call) =>
            call.chunks_before_rerank =
                IF RecentRequests(call) # {}
                THEN fetch_recent_chunks(store, call.retrieval_limit)
                ELSE call.chunks_after_channels

C19_Witness_RecentChunksUsed ==
    /\ RecentRequests(call) # {}
    /\ ContextFormatted(call)
    /\ call.chunks_before_rerank # <<>>

\* the question needs hybrid search and names no lab keyword (lines 448-450)
HybridWithoutKeyword(c) ==
    needs_hybrid_search(c.question) /\ extract_lab_keywords(c.question) = {}

\* C20: the keyword channel and the document-expansion channel are invoked only when
\* wants_hybrid_search is true and lab_keywords is non-empty; when wants_hybrid_search is true
\* but no lab keyword matches, neither channel is called and the result is exactly the
\* semantic result (or the recent-chunks fallback if that is empty); document expansion is
\* invoked only when the keyword channel returned at least one chunk
C20_ChannelsOnlyForLabKeywords ==
    /\ Asked(call, "search_chunks_by_keyword") \/ Asked(call, "fetch_chunks_by_documents") =>
            /\ needs_hybrid_search(call.question)
            /\ extract_lab_keywords(call.question) # {}
    /\ Asked(call, "fetch_chunks_by_documents") =>
            /\ Asked(call, "search_chunks_by_keyword")
            /\ call.keyword_chunks # <<>>
    /\ HybridWithoutKeyword(call) /\ ChannelsDone(call) =>
            call.chunks_after_channels = call.semantic
    /\ HybridWithoutKeyword(call) /\ ContextFormatted(call) =>
            call.chunks_before_rerank =
                IF call.semantic = <<>>
                THEN fetch_recent_chunks(store, call.retrieval_limit)
                ELSE call.semantic

C20_Witness_HybridWithoutKeyword ==
    /\ HybridWithoutKeyword(call)
    /\ ContextFormatted(call)
    /\ call.semantic # <<>>

-----------------------------------------------------------------------------
(* The retrieval limits, the reranker's selection, the merge order and the *)
(* keyword channel                                                         *)

\* the limits of lines 425-427
WideLimits(c, s) ==
    /\ c.chunk_limit = ComprehensiveChunkLimit
    /\ c.retrieval_limit = (IF s.rerank_enabled THEN ComprehensiveRetrievalLimit
                            ELSE c.chunk_limit)
    /\ s.rerank_enabled => c.retrieval_limit > c.chunk_limit
    /\ c.min_sim = ComprehensiveMinSim
    /\ c.min_sim < s.min_similarity_score_chat

\* the limits of lines 430-432
DefaultLimits(c, s) ==
    /\ c.chunk_limit = s.max_retrieval_chunks_chat
    /\ c.retrieval_limit = (IF s.rerank_enabled THEN s.rerank_top_n ELSE c.chunk_limit)
    /\ c.min_sim = s.min_similarity_score_chat

\* C21: the wide limits (fixed large chunk_limit, retrieval_limit strictly larger than
\* chunk_limit when reranking is enabled and equal to it otherwise, lowered similarity
\* floor) are used if and only if the question asks for all results or names a count
\* "last N" (for any parsed integer, including 0); otherwise the configured default limits
\* are used
C21_WideLimitsIffExhaustive ==
    call.pc # "start" =>
        LET question_lower == Lower(call.question)
            wide == asks_for_all(question_lower) \/ last_n_count(question_lower) # None
        IN  /\ WideLimits(call, settings) <=> wide
            /\ ~wide => DefaultLimits(call, settings)

C21_Witness_LastZero ==
    /\ call.pc = "embedding"
    /\ call.last_n_count = Some(0)
    /\ ~call.asks_for_all
    /\ WideLimits(call, settings)

\* the call of _rerank_chunks the selection claim is about: reranking enabled, more chunks
\* than top_k, and the first call has returned
RerankSelected(p) ==
    /\ p.fn = "rerank_chunks" /\ p.returned # <<>>
    /\ p.rerank_enabled
    /\ Len(p.input) > p.top_k

\* the composite scores of the chunks handed in
InputScores(p) ==
    [i \in 1..Len(p.input) |->
        CompositeScore(p.input, p.input[i], p.question, RerankSettingsOf(p))] \o <<>>

\* the places in the input of the chunks returned (the chunks of a table are distinct)
InputPlaces(p) ==
    [k \in 1..Len(p.returned[1]) |->
        CHOOSE i \in 0..Len(p.input) :
            \/ i # 0 /\ p.input[i] = p.returned[1][k]
            \/ i = 0 /\ \A j \in 1..Len(p.input) : p.input[j] # p.returned[1][k]]

\* C22: when reranking is enabled and len(chunks) > top_k, rerank returns exactly top_k
\* chunks, all taken from the input with no chunk repeated or invented, ordered by
\* non-increasing composite score; chunks with equal composite score appear in their input
\* order, and no omitted chunk has a strictly higher composite score than a returned one
C22_RerankSelectsTopK ==
    RerankSelected(probe) =>
        LET score == InputScores(probe)
            place == InputPlaces(probe)
            n == Len(probe.returned[1])
        IN  /\ n = probe.top_k
            /\ \A k \in 1..n : place[k] # 0
            /\ \A k, l \in 1..n : place[k] = place[l] => k = l
            /\ \A k, l \in 1..n : k < l =>
                    /\ score[place[k]] >= score[place[l]]
                    /\ score[place[k]] = score[place[l]] => place[k] < place[l]
            /\ \A i \in 1..Len(probe.input), k \in 1..n :
                    (\A l \in 1..n : place[l] # i) => score[i] <= score[place[k]]

\* two chunks of equal composite score are returned and a third chunk is left out
C22_Witness_EqualScores ==
    /\ RerankSelected(probe)
    /\ probe.top_k >= 2
    /\ \E i, j \in 1..Len(probe.input) :
            /\ i < j
            /\ InputScores(probe)[i] = InputScores(probe)[j]
            /\ probe.returned[1][1] = probe.input[i]
            /\ probe.returned[1][2] = probe.input[j]

RECURSIVE NotYetSeen(_, _)
\* the chunks of a channel's result whose chunk_id is not among seen and did not occur earlier
\* in the result, in the order of the result
NotYetSeen(result, seen) ==
    IF result = <<>> THEN <<>>
    ELSE IF Head(result).chunk_id \in seen THEN NotYetSeen(Tail(result), seen)
    ELSE <<Head(result)>> \o NotYetSeen(Tail(result), seen \cup {Head(result).chunk_id})

\* C23: before any truncation the merged list consists of the semantic results in channel
\* order, followed by the not-yet-seen keyword hits in channel order, followed by the
\* not-yet-seen document-expansion chunks in channel order; the semantic results are always a
\* prefix of the merged list
C23_MergedInFirstSeenOrder ==
    /\ call.merged =
            call.semantic
            \o NotYetSeen(call.keyword_chunks, Ids(call.semantic))
            \o NotYetSeen(call.related_chunks,
                          Ids(call.semantic) \cup Ids(call.keyword_chunks))
    /\ Len(call.semantic) <= Len(call.merged)
    /\ \A i \in 1..Len(call.semantic) : call.merged[i] = call.semantic[i]

\* every channel contributed: a semantic result, a keyword hit not seen before and an
\* expansion chunk not seen before, while the keyword channel also returned a seen chunk
C23_Witness_ThreeChannels ==
    /\ ChannelsDone(call)
    /\ call.semantic # <<>>
    /\ NotYetSeen(call.keyword_chunks, Ids(call.semantic)) # <<>>
    /\ Len(NotYetSeen(call.keyword_chunks, Ids(call.semantic))) < Len(call.keyword_chunks)
    /\ NotYetSeen(call.related_chunks,
                  Ids(call.semantic) \cup Ids(call.keyword_chunks)) # <<>>

Requests(c, op) == {i \in 1..Len(c.io) : c.io[i].op = op}

\* C24: when the keyword channel is invoked, it is queried exactly once, with a single term
\* whose length is maximal among lab_keywords and with limit 2 x chunk_limit; document
\* expansion then requests up to 5 chunks per distinct document_id occurring in the keyword
\* hits
C24_KeywordChannelRequests ==
    LET lab_keywords == extract_lab_keywords(call.question)
        hit_documents == {call.keyword_chunks[k].document_id :
                            k \in 1..Len(call.keyword_chunks)}
    IN  /\ Cardinality(Requests(call, "search_chunks_by_keyword")) <= 1
        /\ \A i \in Requests(call, "search_chunks_by_keyword") :
                /\ call.io[i].term \in lab_keywords
                /\ \A k \in lab_keywords : Len(k) <= Len(call.io[i].term)
                /\ call.io[i].limit = 2 * call.chunk_limit
        /\ Cardinality(Requests(call, "fetch_chunks_by_documents")) <= 1
        /\ \A i \in Requests(call, "fetch_chunks_by_documents") :
                /\ call.io[i].limit = 5
                /\ call.document_ids = hit_documents
        /\ \A i \in 1..Len(call.related_chunks) :
                call.related_chunks[i].document_id \in hit_documents
        /\ \A d \in hit_documents :
                Cardinality({i \in 1..Len(call.related_chunks) :
                                call.related_chunks[i].document_id = d}) <= 5

\* the question names keywords of different lengths, the keyword hits lie in two documents,
\* and the chunks of both were requested and returned
C24_Witness_LongestOfSeveral ==
    /\ \E k, l \in extract_lab_keywords(call.question) : Len(k) < Len(l)
    /\ Requests(call, "fetch_chunks_by_documents") # {}
    /\ Cardinality(call.document_ids) = 2
    /\ call.related_chunks # <<>>

-----------------------------------------------------------------------------
(* The markers of the bullets and the layers of the parser                *)

\* the first call of the parser on a completion made of lines of the vocabulary has returned
ParsedFree(p) == p.fn = "parse" /\ p.done /\ p.shape = "free"

\* a line made of a bullet marker (hyphen, bullet glyph or asterisk), a space, and a text that
\* begins with digits not followed by a period
MarkedValueLine(line) ==
    /\ Len(line) >= 3
    /\ line[1] \in {"-", BulletGlyph, "*"}
    /\ line[2] = " "
    /\ IsDigit(line[3])
    /\ LET after == LStripIdx(line, 3, DigitChars)
       IN  after > Len(line) \/ line[after] # "."

\* C25 as claimed: marker stripping removes only the leading bullet marker: a line of the
\* bullets section whose text after the marker begins with digits that are not followed by a
\* period (a numeric lab value) gives a bullet that keeps those digits
C25_StrippingKeepsValueDigits ==
    ParsedFree(probe) =>
        \A i \in 2..Len(probe.lines) :
            IsBulletsLine(probe.lines[1]) /\ MarkedValueLine(probe.lines[i]) =>
                \E k \in 1..Len(probe.result.bullets) :
                    probe.result.bullets[k] = Strip(SubSeq(probe.lines[i], 3, Len(probe.lines[i])))

\* no line of the text is a BULLETS: line or starts with a bullet marker or a digit, so that
\* the first two layers of the parser find no bullet
NoBulletLine(lines) ==
    \A i \in 1..Len(lines) :
        LET line == Strip(lines[i])
        IN  /\ ~StartsWith(Upper(line), W_BULLETS)
            /\ line # <<>> => line[1] \notin {"-", BulletGlyph, "*"} /\ ~IsDigit(line[1])

\* the lines, stripped, that are not blank and that the first layer does not read as the
\* headline line, in order
NonHeadlineLines(lines) ==
    LET keep == SelectIdx([i \in 1..Len(lines) |->
                            /\ Strip(lines[i]) # <<>>
                            /\ ~StartsWith(Upper(Strip(lines[i])), W_HEADLINE)],
                          1, Len(lines))
    IN  [k \in 1..Len(keep) |-> Strip(lines[keep[k]])]

\* C26 as claimed: in the third layer of the parser (reached when the first two produced no
\* bullets) the bullets are exactly the non-empty lines of the text other than the headline
\* line, in order: a line the first layer read as the headline, one with leading whitespace
\* included, never appears among the bullets
C26_HeadlineLineIsNoBullet ==
    (ParsedFree(probe) /\ NoBulletLine(probe.lines) /\ NonHeadlineLines(probe.lines) # <<>>) =>
        probe.result.bullets = NonHeadlineLines(probe.lines)

\* a stripped line that starts with a bullet marker the first layer strips (hyphen, bullet
\* glyph or asterisk) or with a digit followed by a period within its first 3 characters
StartsWithMarker(line) ==
    /\ line # <<>>
    /\ \/ line[1] \in {"-", BulletGlyph, "*"}
       \/ IsDigit(line[1]) /\ \E k \in 1..Min2(3, Len(line)) : line[k] = "."

\* the bullets of the lines that start with a marker: each with its marker stripped by the
\* rule of the first layer, the empty ones dropped, in order
MarkerLineBullets(lines) ==
    LET keep == SelectIdx([i \in 1..Len(lines) |->
                            /\ StartsWithMarker(Strip(lines[i]))
                            /\ StripMarker(Strip(lines[i])) # <<>>],
                          1, Len(lines))
    IN  [k \in 1..Len(keep) |-> StripMarker(Strip(lines[keep[k]]))]

\* C27 as claimed: in the second layer of the parser (reached when the first produced no
\* bullets) every line that starts with a bullet marker the first layer knows (hyphen, bullet
\* glyph or asterisk) or with a digit followed by a period within its first 3 characters is
\* accepted as a bullet and has its marker stripped by the rule of the first layer
C27_SecondLayerAcceptsEveryMarker ==
    (/\ ParsedFree(probe)
     /\ \A i \in 1..Len(probe.lines) : ~IsBulletsLine(Strip(probe.lines[i]))
     /\ MarkerLineBullets(probe.lines) # <<>>) =>
        probe.result.bullets = MarkerLineBullets(probe.lines)

-----------------------------------------------------------------------------
(* The streaming answer                                                    *)

RECURSIVE NonEmptyFragments(_)
\* the contents of the fragments that have one, in the order the gateway produced them
NonEmptyFragments(produced) ==
    IF produced = <<>> THEN <<>>
    ELSE (IF IsNone(Head(produced)) \/ Get(Head(produced)) = <<>> THEN <<>>
          ELSE <<Get(Head(produced))>>)
         \o NonEmptyFragments(Tail(produced))

RECURSIVE Concatenation(_)
Concatenation(texts) ==
    IF texts = <<>> THEN <<>> ELSE Head(texts) \o Concatenation(Tail(texts))

\* the log of the streaming call was requested: the request is kept, or was written
StreamLogged(c) == c.mode = "stream" /\ ~IsNone(c.log_request)

\* C28: in the streaming answer that runs to exhaustion, every non-empty fragment produced by
\* the completion gateway is forwarded to the consumer in production order, and the audit log
\* is written at most once, only after the last fragment was forwarded, with a response equal
\* to the concatenation of all forwarded fragments
C28_StreamForwardsThenLogs ==
    /\ [](call.mode = "stream" =>
            /\ call.forwarded = NonEmptyFragments(call.produced)
            /\ Cardinality(Requests(call, "log_rag_query")) <= 1
            /\ Len(auditlog) <= 1
            /\ (Requests(call, "log_rag_query") # {} \/ auditlog # <<>>) => StreamLogged(call)
            /\ StreamLogged(call) =>
                    Get(call.log_request).response = Concatenation(call.forwarded)
            /\ \A i \in 1..Len(auditlog) :
                    auditlog[i].response = Concatenation(call.forwarded))
    /\ [][StreamLogged(call) =>
            /\ call.produced' = call.produced
            /\ call.forwarded' = call.forwarded]_vars

\* two different fragments were forwarded, the stream ended, and the log was written
C28_Witness_TwoFragmentsLogged ==
    /\ call.mode = "stream" /\ call.pc = "returned"
    /\ Len(call.forwarded) = 2 /\ call.forwarded[1] # call.forwarded[2]
    /\ Len(auditlog) = 1

-----------------------------------------------------------------------------
(* Concurrent questions                                                    *)

\* the records a log holds, as a bag
Records(log) == [r \in Range(log) |-> Cardinality({i \in 1..Len(log) : log[i] = r})]

FetchedForTwo ==
    /\ probe.fn = "fetch_recent_chunks" /\ probe.done
    /\ probe.patient_id # probe.other_id

\* C30: two distinct patient identifiers supplied by the caller never
\* normalize to the same chunk-store patient key, so the retrieval for one of
\* them returns no chunk that the retrieval for the other returns.
C30_DistinctIdsDistinctKeys ==
    FetchedForTwo =>
        /\ probe.keys[1] # probe.keys[2]
        /\ probe.fetched[1] \cap probe.fetched[2] = {}

=============================================================================
